---- MODULE Spec2Model ----
(***************************************************************************)
(* A model of the STAN task orchestration and lifecycle engine: the        *)
(* keyword router of the orchestrator, the dispatcher and its single-slot  *)
(* worker mailboxes, the container workers, the database worker (Clark)    *)
(* with its status writes and its outbox Reconciler, and Sentry's pickup   *)
(* of task records from the durable store.                                 *)
(***************************************************************************)
EXTENDS Integers, Sequences, FiniteSets, TLC

VARIABLES
  rtask,      \* routing harness: the task handed to routeTask
  routed,     \* routing harness: what routeTask returned ("unset" before the call)
  recall,     \* routing harness: what a second call on the same task returned
  store,      \* durable store, table tasks: id -> [status, updates]
  sentry,     \* Sentry: ids dropped to the inbox whose markInProgress is outstanding
  files,      \* inbox files in order of creation: [task, loc, watch, poll]
  pollQueue,  \* pollInbox: the files the running poll cycle still has to process
  mailbox,    \* agent -> content of /app/agents/<agent>/current-task.json
  mbEvent,    \* agent -> the mailbox watcher has an add/change event to deliver
  clarkWork,  \* Clark: status records read from the mailbox, upsert outstanding
  results,    \* outbox result files in order of creation: [agent, source, disp, loc, pc, taskId, fetched]
  clark,      \* Clark process: [watching, scan, restarts]
  pk,         \* Sentry's pickup paths: [hooks, marks, poll, chat, drops, resets, polls]
  hc,         \* health monitor: [cycle, polled, snapshot]
  db,         \* Clark's request harness: [pc, supabase, task, tables, log, result]
  ghost,      \* history: [ndisp, unread, lost] over the dispatcher's mailbox writes
  orch        \* orchestrator: [polls, classified, decomposed, log, errors]

vars == << rtask, routed, recall, db, hc, pk, store, sentry, files, pollQueue, mailbox, mbEvent,
           clarkWork, results, clark, ghost, orch >>

pipeVars == << store, sentry, files, pollQueue, mailbox, mbEvent,
               clarkWork, results, clark, ghost, orch >>

routeVars == << rtask, routed >>

----------------------------------------------------------------------------
(* Strings.  A JavaScript string is modelled as the sequence of its        *)
(* characters, so that toLowerCase, toUpperCase and includes are computed  *)
(* and not assumed.  NoField is an absent (undefined) field: no      *)
(* string, since its one element is not a character.                      *)

NoField == << "undefined" >>

LowerLetters == <<"a","b","c","d","e","f","g","h","i","j","k","l","m","n","o","p","q","r","s","t","u","v","w","x","y","z">>

UpperLetters == <<"A","B","C","D","E","F","G","H","I","J","K","L","M","N","O","P","Q","R","S","T","U","V","W","X","Y","Z">>

LetterIndex(c, alphabet) ==
  IF \E i \in 1..Len(alphabet) : alphabet[i] = c
    THEN CHOOSE i \in 1..Len(alphabet) : alphabet[i] = c
    ELSE 0

toLowerCase(s) ==
  [i \in 1..Len(s) |->
     IF LetterIndex(s[i], UpperLetters) > 0
       THEN LowerLetters[LetterIndex(s[i], UpperLetters)] ELSE s[i]]

toUpperCase(s) ==
  [i \in 1..Len(s) |->
     IF LetterIndex(s[i], LowerLetters) > 0
       THEN UpperLetters[LetterIndex(s[i], LowerLetters)] ELSE s[i]]

\* String.prototype.includes: needle occurs in s as a contiguous substring.
includes(s, needle) ==
  \E off \in 0..(Len(s) - Len(needle)) :
    \A i \in 1..Len(needle) : s[off + i] = needle[i]

\* (x || ''): an absent field reads as the empty string.
OrEmpty(x) == IF x = NoField THEN << >> ELSE x

----------------------------------------------------------------------------
(* Routing tables, in declaration order (Object.keys / Object.entries      *)
(* enumerate string keys in insertion order).                              *)

ORACLE_ROUTES ==
  << [key |-> <<"c","o","m","p","l","e","x">>, agent |-> "oracle"],
     [key |-> <<"a","r","c","h","i","t","e","c","t","u","r","e">>, agent |-> "oracle"],
     [key |-> <<"c","o","d","e","-","r","e","v","i","e","w">>, agent |-> "oracle"],
     [key |-> <<"a","u","d","i","t">>, agent |-> "oracle"],
     [key |-> <<"o","r","a","c","l","e">>, agent |-> "oracle"],
     [key |-> <<"r","e","f","a","c","t","o","r">>, agent |-> "oracle"],
     [key |-> <<"s","e","c","u","r","i","t","y">>, agent |-> "oracle"] >>

AGENT_ROUTES ==
  << [key |-> <<"e","q","u","i","p","m","e","n","t">>, agent |-> "magnus"],
     [key |-> <<"t","e","c","h","n","i","c","a","l">>, agent |-> "magnus"],
     [key |-> <<"k","n","o","w","l","e","d","g","e">>, agent |-> "magnus"],
     [key |-> <<"d","o","c","u","m","e","n","t">>, agent |-> "pete"],
     [key |-> <<"r","e","c","o","n","s","t","r","u","c","t">>, agent |-> "pete"],
     [key |-> <<"p","d","f">>, agent |-> "pete"],
     [key |-> <<"f","o","r","m","a","t">>, agent |-> "pete"],
     [key |-> <<"e","p","i","c","o","r">>, agent |-> "caesar"],
     [key |-> <<"o","r","d","e","r">>, agent |-> "caesar"],
     [key |-> <<"c","s","r">>, agent |-> "caesar"],
     [key |-> <<"b","a","q">>, agent |-> "caesar"],
     [key |-> <<"c","u","s","t","o","m","e","r">>, agent |-> "caesar"],
     [key |-> <<"e","m","a","i","l">>, agent |-> "maggie"],
     [key |-> <<"d","r","a","f","t">>, agent |-> "maggie"],
     [key |-> <<"c","o","m","m","u","n","i","c","a","t","i","o","n">>, agent |-> "maggie"],
     [key |-> <<"l","e","t","t","e","r">>, agent |-> "maggie"],
     [key |-> <<"r","e","s","p","o","n","d">>, agent |-> "maggie"],
     [key |-> <<"s","u","p","a","b","a","s","e">>, agent |-> "clark"],
     [key |-> <<"q","u","e","r","y">>, agent |-> "clark"],
     [key |-> <<"u","p","l","o","a","d">>, agent |-> "clark"],
     [key |-> <<"t","a","s","k","-","w","r","i","t","e">>, agent |-> "clark"],
     [key |-> <<"d","a","t","a","b","a","s","e">>, agent |-> "clark"],
     [key |-> <<"w","e","b","h","o","o","k">>, agent |-> "sentry"],
     [key |-> <<"c","r","o","n">>, agent |-> "sentry"],
     [key |-> <<"s","c","h","e","d","u","l","e">>, agent |-> "sentry"],
     [key |-> <<"h","o","o","k">>, agent |-> "sentry"],
     [key |-> <<"r","e","s","e","a","r","c","h">>, agent |-> "scout"],
     [key |-> <<"s","e","a","r","c","h">>, agent |-> "scout"],
     [key |-> <<"i","n","v","e","s","t","i","g","a","t","e">>, agent |-> "scout"],
     [key |-> <<"l","o","o","k","u","p">>, agent |-> "scout"],
     [key |-> <<"f","i","n","d"," ","o","u","t">>, agent |-> "scout"],
     [key |-> <<"w","e","b">>, agent |-> "scout"] >>


\* Lower-case property names every object literal inherits from
\* Object.prototype; TABLE[type] finds them although the table does not
\* declare them, and their values are truthy.
InheritedKeys == { <<"c","o","n","s","t","r","u","c","t","o","r">>, <<"_","_","p","r","o","t","o","_","_">> }

HasOwn(table, k) == \E i \in 1..Len(table) : table[i].key = k

\* TABLE[k] is truthy.
Truthy(table, k) == HasOwn(table, k) \/ k \in InheritedKeys

\* TABLE[k] for a key that reads truthy; an inherited member is not a worker name.
Lookup(table, k) ==
  IF HasOwn(table, k)
    THEN table[CHOOSE i \in 1..Len(table) : table[i].key = k].agent
    ELSE "inherited"

\* for (const keyword of Object.keys(TABLE)) if (content.includes(keyword)) return ...
FirstKeyword(table, content) ==
  IF \E i \in 1..Len(table) : includes(content, table[i].key)
    THEN LET i == CHOOSE j \in 1..Len(table) :
                    /\ includes(content, table[j].key)
                    /\ \A k \in 1..(j - 1) : ~includes(content, table[k].key)
         IN  table[i].agent
    ELSE "none"

\* routeTask with the ordinary table consulted before the escalation keywords.
routeTaskOrdinaryFirst(task) ==
  LET type       == toLowerCase(OrEmpty(task.type))
      assignedTo == toUpperCase(OrEmpty(task.assigned_to))
      content    == toLowerCase(OrEmpty(task.description))
  IN  IF assignedTo = <<"O","R","A","C","L","E">> THEN "oracle"
      ELSE IF Truthy(ORACLE_ROUTES, type) THEN "oracle"
      ELSE IF Truthy(AGENT_ROUTES, type) THEN Lookup(AGENT_ROUTES, type)
      ELSE IF FirstKeyword(AGENT_ROUTES, content) # "none"
             THEN FirstKeyword(AGENT_ROUTES, content)
      ELSE FirstKeyword(ORACLE_ROUTES, content)

\* A router that looks at the mailboxes: a worker whose mailbox holds a task
\* is passed over.
routeTaskIdleOnly(task) ==
  LET type       == toLowerCase(OrEmpty(task.type))
      assignedTo == toUpperCase(OrEmpty(task.assigned_to))
      content    == toLowerCase(OrEmpty(task.description))
      agent      == IF assignedTo = <<"O","R","A","C","L","E">> THEN "oracle"
                    ELSE IF Truthy(ORACLE_ROUTES, type) THEN "oracle"
                    ELSE IF FirstKeyword(ORACLE_ROUTES, content) # "none" THEN "oracle"
                    ELSE IF Truthy(AGENT_ROUTES, type) THEN Lookup(AGENT_ROUTES, type)
                    ELSE FirstKeyword(AGENT_ROUTES, content)
  IN  IF agent # "none" /\ mailbox[agent].kind # "empty" THEN "none" ELSE agent

\* routeTask comparing assigned_to as written, without toUpperCase.
routeTaskCaseSensitive(task) ==
  LET type       == toLowerCase(OrEmpty(task.type))
      assignedTo == OrEmpty(task.assigned_to)
      content    == toLowerCase(OrEmpty(task.description))
  IN  IF assignedTo = <<"O","R","A","C","L","E">> THEN "oracle"
      ELSE IF Truthy(ORACLE_ROUTES, type) THEN "oracle"
      ELSE IF FirstKeyword(ORACLE_ROUTES, content) # "none" THEN "oracle"
      ELSE IF Truthy(AGENT_ROUTES, type) THEN Lookup(AGENT_ROUTES, type)
      ELSE FirstKeyword(AGENT_ROUTES, content)

routeTask(task) ==
  LET type       == toLowerCase(OrEmpty(task.type))
      assignedTo == toUpperCase(OrEmpty(task.assigned_to))
      content    == toLowerCase(OrEmpty(task.description))
  IN  IF assignedTo = <<"O","R","A","C","L","E">> THEN "oracle"
      ELSE IF Truthy(ORACLE_ROUTES, type) THEN "oracle"
      ELSE IF FirstKeyword(ORACLE_ROUTES, content) # "none" THEN "oracle"
      ELSE IF Truthy(AGENT_ROUTES, type) THEN Lookup(AGENT_ROUTES, type)
      ELSE FirstKeyword(AGENT_ROUTES, content)

----------------------------------------------------------------------------
(* Inputs of the routing harness.                                          *)

MaxWords == 2

Words == { <<"s","e","c","u","r","i","t","y">>,
           <<"A","u","d","i","t">>,
           <<"o","r","d","e","r">>,
           <<"d","o","c","u","m","e","n","t">>,
           <<"r","e","c","o","r","d","e","r">>,
           <<"f","l","i","b">>,
           <<"w","e","b">>,
           <<"e","m","a","i","l">> }

RECURSIVE Phrases(_)
Phrases(n) ==
  IF n = 0 THEN { << >> }
  ELSE Phrases(n - 1) \cup Words \cup
       { p \o << " " >> \o w : p \in Phrases(n - 1) \ { << >> }, w \in Words }

Types == { NoField,
           <<"e","m","a","i","l">>,
           <<"E","M","A","I","L">>,
           <<"d","o","c","u","m","e","n","t">>,
           <<"s","e","c","u","r","i","t","y">>,
           <<"u","n","k","n","o","w","n">>,
           <<"c","o","n","s","t","r","u","c","t","o","r">>,
           <<"o","r","d","e","r">>,
           <<"C","o","m","p","l","e","x">> }

AssignedTos == { NoField,
                 <<"o","r","a","c","l","e">>,
                 <<"O","R","A","C","L","E">>,
                 <<"O","r","a","c","l","e">>,
                 <<"o","R","a","C","l","E">>,
                 <<"p","e","t","e">>,
                 <<"A","N","Y">>,
                 <<"M","A","G","G","I","E">>,
                 <<"o","r","a","c","l","e","s">> }

Descriptions == { NoField } \cup Phrases(MaxWords)

RouteInputs == [type : Types, assigned_to : AssignedTos, description : Descriptions]

----------------------------------------------------------------------------
(* The pipeline: durable store, Sentry pickup, inbox, orchestrator,        *)
(* mailboxes, workers, Clark and its Reconciler.                           *)

Agents == { "magnus", "pete", "caesar", "maggie", "clark", "sentry", "scout", "oracle" }

\* Rows an external producer inserts into the tasks table (status inbox).
RowEmail ==
  [type |-> <<"e","m","a","i","l">>, description |-> <<"d","r","a","f","t"," ","a"," ","n","o","t","e">>,
   assigned_to |-> NoField]

RowClark ==
  [type |-> NoField, description |-> <<"c","o","u","n","t"," ","r","o","w","s">>,
   assigned_to |-> <<"c","l","a","r","k">>]

\* Sentry: map agent names to orchestrator-routable task types.
AGENT_TYPE_MAP ==
  << [key |-> <<"M","A","G","N","U","S">>, agent |-> <<"e","q","u","i","p","m","e","n","t">>],
     [key |-> <<"P","E","T","E">>, agent |-> <<"d","o","c","u","m","e","n","t">>],
     [key |-> <<"C","A","E","S","A","R">>, agent |-> <<"e","p","i","c","o","r">>],
     [key |-> <<"M","A","G","G","I","E">>, agent |-> <<"e","m","a","i","l">>],
     [key |-> <<"C","L","A","R","K">>, agent |-> <<"s","u","p","a","b","a","s","e">>],
     [key |-> <<"S","E","N","T","R","Y">>, agent |-> <<"w","e","b","h","o","o","k">>],
     [key |-> <<"S","C","O","U","T">>, agent |-> <<"r","e","s","e","a","r","c","h">>],
     [key |-> <<"O","R","A","C","L","E">>, agent |-> <<"c","o","m","p","l","e","x">>] >>

\* Sentry buildTaskData(record, source): the task object dropped to the inbox.
buildTaskData(id, row) ==
  LET assignedTo == toUpperCase(IF row.assigned_to \in { NoField, << >> }
                                  THEN <<"A","N","Y">> ELSE row.assigned_to)
  IN  [id          |-> id,
       type        |-> IF HasOwn(AGENT_TYPE_MAP, assignedTo)
                         THEN Lookup(AGENT_TYPE_MAP, assignedTo)
                         ELSE IF row.type \in { NoField, << >> }
                                THEN <<"g","e","n","e","r","a","l">> ELSE row.type,
       description |-> OrEmpty(row.description),
       assigned_to |-> assignedTo]

\* An absent or null id.
NoId == "null"

\* task_source: task._source_file || 'unknown'; inbox files are numbered from 1.
UnknownSource == 0

\* A mailbox file that does not exist.
\* {...base, ...over}: the fields of over replace fields of base.
Spread(base, over) ==
  [k \in DOMAIN base \cup DOMAIN over |-> IF k \in DOMAIN over THEN over[k] ELSE base[k]]

NoTask == [kind |-> "empty"]

\* dispatchToAgent: enrichedTask = {...task, _routed_by, _routed_at, _source_file}.
\* The time stamp _routed_at is the number of the mailbox write.  The three
\* fields stand beside the task's other fields and replace fields of the
\* task with the same names.
Enriched(task, f, n) ==
  [kind |-> "task",
   task |-> [k \in DOMAIN task \ { "_routed_by", "_routed_at", "_source_file" } |-> task[k]],
   _routed_by |-> "stan-orchestrator", _routed_at |-> n, _source_file |-> f]

\* requestClarkUpdate: the task-write object put into Clark's mailbox.
UpdateTask(id) ==
  [kind |-> "task-write", record |-> [id |-> id, status |-> "in_progress"],
   _source |-> "orchestrator-status-update", _routed_by |-> "stan-orchestrator"]

\* A processTask invocation of the orchestrator that has not started.
Idle == [pc |-> "none", agent |-> "none", stamp |-> 0, subs |-> << >>, i |-> 0, via |-> "none",
         router |-> "unset"]

Outbox == { r \in 1..Len(results) : results[r].loc = "outbox" }

Inbox == { f \in 1..Len(files) : files[f].loc = "inbox" }

RECURSIVE Ascending(_)
\* readdir: the names of a directory, here in order of creation.
Ascending(S) ==
  IF S = { } THEN << >>
  ELSE LET m == CHOOSE x \in S : \A y \in S : x <= y
       IN  << m >> \o Ascending(S \ { m })

\* The rows of the tasks table at the start: one record, for the email
\* worker or for Clark.
OneRecord == { [t1 |-> RowEmail], [t1 |-> RowClark] }

\* Two records inserted together, for the same worker or for two workers.
TwoRecords == { [t1 |-> RowEmail, t2 |-> RowEmail], [t1 |-> RowEmail, t2 |-> RowClark] }

----------------------------------------------------------------------------
(* Orchestrator: the health monitor, pollAgent, getOracleHealth and        *)
(* runHealthCheck.                                                         *)

\* HEALTH_TARGETS, lines 62-70, in declaration order.
HEALTH_TARGETS == << "magnus", "pete", "caesar", "maggie", "clark", "scout", "sentry" >>

\* What GET /health of a worker answers: {agent: AGENT_NAME, status: 'ok', ...}.
HealthBody(name) == [agent |-> name, status |-> "ok"]

\* What one fetch of a worker's /health comes to: a 2xx answer with the
\* worker's body, an answer with another HTTP status, or no answer (refused,
\* aborted after 5 s, body not JSON).
PollOutcomes == { "body", "http-error", "failed" }

\* The targets whose poll is let fail; the others answer.
FlakyTargets == { "magnus", "clark", "sentry" }

\* pollAgent whose failure results carry no worker name.
pollAgentUnnamed(name, outcome) ==
  IF outcome = "body" THEN HealthBody(name)
  ELSE IF outcome = "http-error" THEN [agent |-> "undefined", status |-> "unhealthy"]
  ELSE [agent |-> "undefined", status |-> "unreachable"]

\* pollAgent, lines 82-98.
pollAgent(name, outcome) ==
  IF outcome = "body" THEN HealthBody(name)
  ELSE IF outcome = "http-error" THEN [agent |-> name, status |-> "unhealthy"]
  ELSE [agent |-> name, status |-> "unreachable"]

\* The oracle's health.json as the read finds it: missing or not JSON, or
\* the runner's getHealthData with the age of last_updated against 60 s
\* and uptime_seconds zero or not.
OracleFiles ==
  { [kind |-> "missing"] } \cup
  { [kind |-> "file", old |-> o, uptime_seconds |-> u] : o \in BOOLEAN, u \in { 0, 5 } }

\* getOracleHealth, lines 100-114.
getOracleHealth(file) ==
  IF file.kind = "missing" THEN [agent |-> "oracle", status |-> "offline"]
  ELSE IF file.old /\ file.uptime_seconds = 0 THEN [agent |-> "oracle", status |-> "stale"]
  ELSE HealthBody("oracle")

\* runHealthCheck, lines 126-128: statusData.agents[result.agent] = result,
\* in the order of the results; a later result replaces an earlier one of the
\* same name.
AgentsOf(polls) ==
  [a \in { polls[i].agent : i \in 1..Len(polls) } |->
     polls[CHOOSE i \in 1..Len(polls) :
               /\ polls[i].agent = a
               /\ \A j \in 1..Len(polls) : polls[j].agent = a => j <= i]]

\* No health check has run: agent-status.json does not exist.
HcIdle == [cycle |-> 0, polled |-> << >>, snapshot |-> << >>]

HcRest == hc = HcIdle

MaxCycles == 2

\* runHealthCheck, lines 116-131: poll the seven targets, read the oracle's
\* health file, build statusData and write agent-status.json.  polled keeps
\* what this cycle's polls and read came to.
RunHealthCheck ==
  /\ hc.cycle < MaxCycles
  /\ \E outcomes \in [1..Len(HEALTH_TARGETS) -> PollOutcomes], file \in OracleFiles :
       /\ \A i \in 1..Len(HEALTH_TARGETS) :
            HEALTH_TARGETS[i] \notin FlakyTargets => outcomes[i] = "body"
       /\ LET polls == [i \in 1..Len(HEALTH_TARGETS) |-> pollAgent(HEALTH_TARGETS[i], outcomes[i])]
                         \o << getOracleHealth(file) >>
          IN  hc' = [cycle |-> hc.cycle + 1,
                     polled |-> [outcomes |-> outcomes, file |-> file],
                     snapshot |-> AgentsOf(polls)]
  /\ UNCHANGED << rtask, routed, recall, db, pk, pipeVars >>

----------------------------------------------------------------------------
(* Clark, the database worker: processTask and the operations on the       *)
(* store that it calls.  A task is a record that has the fields given to   *)
(* it; the values used here are all truthy, so a JavaScript test of a      *)
(* field is the test that the task has it.  Tasks of type upload (storage, *)
(* no table) are left out.                                                 *)

\* WRITABLE_TABLES, line 20.
WRITABLE_TABLES == { "tasks", "agent_status", "agent_activity", "scheduled_tasks", "chat_messages" }

\* The tables of the store: the five of the allow-list and two others.
StoreTables == WRITABLE_TABLES \cup { "customers", "auth_users" }

Has(task, k) == k \in DOMAIN task

\* The store client (null without credentials), the tables and the log
\* before a task is handled.
DbStart(supabase) ==
  [supabase |-> supabase, tables |-> [t \in StoreTables |-> { }], log |-> << >>]

\* Outcomes of one call of the store: it succeeds or returns an error.
StoreOutcomes == { "ok", "error" }

\* writeToTable, lines 116-130.
writeToTable(st, table, record, outcome) ==
  IF ~st.supabase
    THEN [st |-> st, result |-> [error |-> "Supabase credentials not configured."]]
  ELSE IF table \notin WRITABLE_TABLES
    THEN [st |-> [st EXCEPT !.log = Append(@, [line |-> "WRITE DENIED", table |-> table])],
          result |-> [error |-> "DENIED", table |-> table]]
  ELSE IF outcome = "error"
    THEN [st |-> [st EXCEPT !.log = @ \o << [line |-> "WRITE", table |-> table],
                                            [line |-> "WRITE ERROR", table |-> table] >>],
          result |-> [error |-> "store error"]]
  ELSE [st |-> [st EXCEPT !.log = Append(@, [line |-> "WRITE", table |-> table]),
                          !.tables[table] = @ \cup { record }],
        result |-> [data |-> << record >>]]

\* queryTable, lines 86-114: a select; the store is not changed.
queryTable(st, table, outcome) ==
  IF ~st.supabase
    THEN [st |-> st, result |-> [error |-> "Supabase credentials not configured."]]
  ELSE IF outcome = "error"
    THEN [st |-> [st EXCEPT !.log = @ \o << [line |-> "READ", table |-> table],
                                            [line |-> "READ ERROR", table |-> table] >>],
          result |-> [error |-> "store error"]]
  ELSE [st |-> [st EXCEPT !.log = Append(@, [line |-> "READ", table |-> table])],
        result |-> [data |-> << >>, count |-> 0]]

\* logActivity, lines 159-174: insert of one row into agent_activity.
logActivity(st, row, outcome) ==
  IF ~st.supabase THEN st
  ELSE IF outcome = "error"
    THEN [st EXCEPT !.log = Append(@, [line |-> "ACTIVITY LOG ERROR", table |-> "agent_activity"])]
  ELSE [st EXCEPT !.tables["agent_activity"] = @ \cup { row }]

\* task.user_id || null, task.id || null.
OrNull(task, k) == IF Has(task, k) THEN task[k] ELSE "null"

\* Lines 566-568 and 584-586: the record takes the task's user_id when it
\* has none of its own.
WithUser(task) ==
  IF Has(task, "user_id") /\ ~Has(task.record, "user_id")
    THEN Spread(task.record, [user_id |-> task.user_id])
    ELSE task.record

\* processTask, lines 561-600: the branch taken for the task.
Operation(st, task, outcome) ==
  IF Has(task, "type") /\ task.type = "task-write" /\ Has(task, "record")
    THEN writeToTable(st, "tasks", WithUser(task), outcome)
  ELSE IF Has(task, "type") /\ task.type = "log-activity"
    THEN [st |-> logActivity(st, [agent_name |-> "unknown", action |-> "unknown",
                                   user_id |-> OrNull(task, "user_id"),
                                   task_id |-> OrNull(task, "task_id")], outcome),
          result |-> [logged |-> TRUE]]
  ELSE IF Has(task, "table")
    THEN IF Has(task, "record")
           THEN writeToTable(st, task.table, WithUser(task), outcome)
           ELSE queryTable(st, task.table, outcome)
  ELSE [st |-> st, result |-> [analysis |-> "text"]]

\* processTask, lines 553-624: the operation, then the activity row for a
\* task with a user_id (lines 603-607), then the output file with the result.
processTask(st, task, outcome, logOutcome) ==
  LET done == Operation(st, task, outcome)
  IN  [st |-> IF Has(task, "user_id")
                THEN logActivity(done.st, [agent_name |-> "clark", action |-> "task_completed",
                                           user_id |-> task.user_id,
                                           task_id |-> OrNull(task, "id")], logOutcome)
                ELSE done.st,
       result |-> done.result]

\* No request is being handled.
DbIdle == [pc |-> "none"]

DbRest == db = DbIdle

\* Clark's handleTask has read a task from its mailbox and processTask runs
\* to its end.
ClarkProcessTask ==
  /\ db.pc = "new"
  /\ \E outcome \in StoreOutcomes, logOutcome \in StoreOutcomes :
       LET out == processTask(DbStart(db.supabase), db.task, outcome, logOutcome)
       IN  db' = [pc |-> "done", supabase |-> db.supabase, task |-> db.task,
                  tables |-> out.st.tables, log |-> out.st.log, result |-> out.result]
  /\ UNCHANGED << rtask, routed, recall, hc, pk, pipeVars >>

\* Every process has started: the inbox, the outbox and the mailboxes are
\* empty, Clark's startup scan found nothing and its watchers run.
PipeInit(rowsets) ==
  /\ store \in { [t \in DOMAIN rows |-> [status |-> "inbox", updates |-> << >>, row |-> rows[t]]] :
                   rows \in rowsets }
  /\ sentry = { }
  /\ files = << >>
  /\ pollQueue = << >>
  /\ mailbox = [a \in Agents |-> NoTask]
  /\ mbEvent = [a \in Agents |-> FALSE]
  /\ clarkWork = { }
  /\ results = << >>
  /\ clark = [watching |-> TRUE, scan |-> << >>, restarts |-> 0, seen |-> { }]
  /\ ghost = [ndisp |-> 0, unread |-> { }, lost |-> { },
              wrestarts |-> 0]
  /\ orch = [polls |-> 0, classified |-> 0, decomposed |-> 0, log |-> << >>, errors |-> << >>,
             caught |-> << >>]

----------------------------------------------------------------------------
(* Sentry: pickup of a task record from the store.                         *)

\* pollInboxTasks / POST /hook/new-task, first half: the record has status
\* inbox; buildTaskData and dropTaskToInbox.  The orchestrator's watcher will
\* report the new file.
SentryDrop(t) ==
  /\ store[t].status = "inbox"
  /\ t \notin sentry
  /\ files' = Append(files, [task  |-> buildTaskData(t, store[t].row),
                             loc   |-> "inbox",
                             watch |-> [Idle EXCEPT !.pc = "start"],
                             poll  |-> Idle,
                             writes |-> 0])
  /\ sentry' = sentry \cup { t }
  /\ UNCHANGED << rtask, routed, recall, db, hc, pk, orch, store, pollQueue, mailbox, mbEvent, clarkWork, results, clark, ghost >>

\* markInProgress(record.id), awaited after the drop.
SentryMark(t) ==
  /\ t \in sentry
  /\ sentry' = sentry \ { t }
  /\ store' = [store EXCEPT ![t].status = "in_progress"]
  /\ UNCHANGED << rtask, routed, recall, db, hc, pk, orch, files, pollQueue, mailbox, mbEvent, clarkWork, results, clark, ghost >>

----------------------------------------------------------------------------
(* Sentry's three pickup paths, each on its own: the new-task webhook that *)
(* the store's trigger calls, the 30-second poller of the store, and the   *)
(* chat handler.  Every await of a handler ends a step.                    *)

\* A file as dropTaskToInbox writes it; the orchestrator's watcher will
\* report it.
InboxFile(task) ==
  [task |-> task, loc |-> "inbox", watch |-> [Idle EXCEPT !.pc = "start"], poll |-> Idle,
   writes |-> 0]

\* The task that the chat handler makes out of a message.
RowChat ==
  [type |-> <<"g","e","n","e","r","a","l">>, description |-> <<"d","r","a","f","t"," ","a"," ","n","o","t","e">>,
   assigned_to |-> <<"A","N","Y">>]

\* Ids of the records: one inserted by a producer, one by the chat handler.
PickupIds == { "t1", "c1" }

\* Sentry has started and no request has come in.  hooks: calls of the
\* trigger under way; marks: markInProgress calls awaited, by path; poll:
\* the records of the running poll and the one being marked; drops: the files
\* dropped for the record since its status last became inbox.
PkIdle ==
  [hooks |-> { }, marks |-> { }, poll |-> [pending |-> { }, marking |-> "none"],
   chat |-> "none", drops |-> [t \in PickupIds |-> { }], resets |-> 0, polls |-> 0]

PkRest == pk = PkIdle

\* markInProgress, lines 123-132: update({status: 'in_progress'}).eq('id', taskId).
MarkRow(row) == [row EXCEPT !.status = "in_progress"]

\* A trigger that does not fire.
WakeNever(t) == [pk EXCEPT !.drops[t] = { }]

\* The trigger wake-stan-tasks: the status of a record has become inbox, the
\* store posts the record to /hook/new-task.
Wake(t) == [pk EXCEPT !.hooks = @ \cup { t }, !.drops[t] = { }]

\* POST /hook/new-task, lines 262-273: buildTaskData, dropTaskToInbox.
HookReceive(t) ==
  /\ t \in pk.hooks
  /\ << "hook", t >> \notin pk.marks
  /\ files' = Append(files, InboxFile(buildTaskData(t, store[t].row)))
  /\ pk' = [pk EXCEPT !.hooks = @ \ { t }, !.marks = @ \cup { << "hook", t >> },
                      !.drops[t] = @ \cup { Len(files) + 1 }]
  /\ UNCHANGED << rtask, routed, recall, db, hc, orch, store, sentry, pollQueue, mailbox, mbEvent, clarkWork, results, clark, ghost >>

\* POST /hook/new-task, line 274: the awaited markInProgress(record.id).
HookMark(t) ==
  /\ << "hook", t >> \in pk.marks
  /\ store' = [store EXCEPT ![t] = MarkRow(@)]
  /\ pk' = [pk EXCEPT !.marks = @ \ { << "hook", t >> }]
  /\ UNCHANGED << rtask, routed, recall, db, hc, orch, sentry, files, pollQueue, mailbox, mbEvent, clarkWork, results, clark, ghost >>

MaxSentryPolls == 1

\* pollInboxTasks, lines 136-151: select the records with status inbox.
SentryPollSelect ==
  /\ pk.polls < MaxSentryPolls
  /\ pk.poll.pending = { } /\ pk.poll.marking = "none"
  /\ pk' = [pk EXCEPT !.polls = @ + 1,
                      !.poll.pending = { t \in DOMAIN store : store[t].status = "inbox" }]
  /\ UNCHANGED << rtask, routed, recall, db, hc, orch, store, sentry, files, pollQueue, mailbox, mbEvent, clarkWork, results, clark, ghost >>

\* pollInboxTasks, lines 155-157: buildTaskData and dropTaskToInbox for the
\* next record of the result.
SentryPollDrop(t) ==
  /\ pk.poll.marking = "none"
  /\ t \in pk.poll.pending
  /\ files' = Append(files, InboxFile(buildTaskData(t, store[t].row)))
  /\ pk' = [pk EXCEPT !.poll.pending = @ \ { t }, !.poll.marking = t, !.drops[t] = @ \cup { Len(files) + 1 }]
  /\ UNCHANGED << rtask, routed, recall, db, hc, orch, store, sentry, pollQueue, mailbox, mbEvent, clarkWork, results, clark, ghost >>

\* pollInboxTasks, line 158: the awaited markInProgress(record.id).
SentryPollMark ==
  /\ pk.poll.marking # "none"
  /\ store' = [store EXCEPT ![pk.poll.marking] = MarkRow(@)]
  /\ pk' = [pk EXCEPT !.poll.marking = "none"]
  /\ UNCHANGED << rtask, routed, recall, db, hc, orch, sentry, files, pollQueue, mailbox, mbEvent, clarkWork, results, clark, ghost >>

\* POST /chat/stan, lines 421-447: the message is a task and the user is
\* known; the handler inserts the record with status inbox (the trigger
\* fires) and takes the id the store gave it.
ChatInsert ==
  /\ pk.chat = "none"
  /\ "c1" \notin DOMAIN store
  /\ store' = [t \in DOMAIN store \cup { "c1" } |->
                 IF t = "c1" THEN [status |-> "inbox", updates |-> << >>, row |-> RowChat]
                 ELSE store[t]]
  /\ pk' = [Wake("c1") EXCEPT !.chat = "drop"]
  /\ UNCHANGED << rtask, routed, recall, db, hc, orch, sentry, files, pollQueue, mailbox, mbEvent, clarkWork, results, clark, ghost >>

\* POST /chat/stan, lines 449-454: buildTaskData and dropTaskToInbox.
ChatDrop ==
  /\ pk.chat = "drop"
  /\ files' = Append(files, InboxFile(buildTaskData("c1", store["c1"].row)))
  /\ pk' = [pk EXCEPT !.chat = "mark", !.drops["c1"] = @ \cup { Len(files) + 1 }]
  /\ UNCHANGED << rtask, routed, recall, db, hc, orch, store, sentry, pollQueue, mailbox, mbEvent, clarkWork, results, clark, ghost >>

\* POST /chat/stan, lines 456-458: the awaited markInProgress(taskRecord.id).
ChatMark ==
  /\ pk.chat = "mark"
  /\ store' = [store EXCEPT !["c1"] = MarkRow(@)]
  /\ pk' = [pk EXCEPT !.chat = "done"]
  /\ UNCHANGED << rtask, routed, recall, db, hc, orch, sentry, files, pollQueue, mailbox, mbEvent, clarkWork, results, clark, ghost >>

MaxResets == 1

\* An external actor sets the status of a record back to inbox; the trigger
\* fires on the update.
ExternalReset(t) ==
  /\ pk.resets < MaxResets
  /\ store[t].status # "inbox"
  /\ store' = [store EXCEPT ![t].status = "inbox"]
  /\ pk' = [Wake(t) EXCEPT !.resets = @ + 1]
  /\ UNCHANGED << rtask, routed, recall, db, hc, orch, sentry, files, pollQueue, mailbox, mbEvent, clarkWork, results, clark, ghost >>

----------------------------------------------------------------------------
(* Orchestrator: pollInbox and processTask.  processTask(f) runs once for  *)
(* the watcher's add event of f ("watch") and once per poll cycle that     *)
(* lists f ("poll"); the poll cycle awaits each file in turn.  The steps   *)
(* are the stretches of processTask between awaits that other handlers can *)
(* interleave with.                                                        *)

\* pollInbox: readdir(INBOX), the .json files, nothing to do when there are none.
PollBegin ==
  /\ pollQueue = << >>
  /\ Inbox # { }
  /\ pollQueue' = Ascending(Inbox)
  /\ files' = [f \in 1..Len(files) |->
                 IF f \in Inbox THEN [files[f] EXCEPT !.poll = [Idle EXCEPT !.pc = "start"]]
                 ELSE files[f]]

PollStart ==
  /\ PollBegin
  /\ UNCHANGED << rtask, routed, recall, db, hc, pk, orch, store, sentry, mailbox, mbEvent, clarkWork, results, clark, ghost >>

CanRun(f, who) ==
  \/ who = "watch"
  \/ who = "poll" /\ pollQueue # << >> /\ Head(pollQueue) = f

\* processTask returned: the poll cycle goes on to its next file.
AfterReturn(who) == IF who = "poll" THEN Tail(pollQueue) ELSE pollQueue

\* task.workflow === true || task.type === 'workflow', line 320.
IsWorkflow(task) ==
  \/ "workflow" \in DOMAIN task /\ task.workflow = TRUE
  \/ task.type = <<"w","o","r","k","f","l","o","w">>

\* processTask, lines 329-336: routeTask; without a worker the classifier
\* is called next.  router keeps what routeTask returned.
Routed(task) ==
  LET agent == routeTask(task)
  IN  [Idle EXCEPT !.pc = IF agent = "none" THEN "classify" ELSE "dispatch",
                   !.agent = agent, !.router = agent]

\* processTask, lines 311-330: readFile, JSON.parse, the workflow test,
\* routeTask.  A file that has left the inbox makes readFile throw; the
\* catch logs and returns.
PTRead(f, who) ==
  /\ files[f][who].pc = "start"
  /\ CanRun(f, who)
  /\ IF files[f].loc # "inbox"
       THEN /\ files' = [files EXCEPT ![f][who].pc = "done"]
            /\ pollQueue' = AfterReturn(who)
       ELSE /\ files' = [files EXCEPT ![f][who] =
                          IF IsWorkflow(files[f].task)
                            THEN [Idle EXCEPT !.pc = "decompose", !.via = "explicit"]
                            ELSE Routed(files[f].task)]
            /\ pollQueue' = pollQueue
  /\ UNCHANGED << rtask, routed, recall, db, hc, pk, orch, store, sentry, mailbox, mbEvent, clarkWork, results, clark, ghost >>

\* The history of a mailbox write: the content it replaces is lost when no
\* handler has read it.
Overwrite(a, n) ==
  LET old == mailbox[a]
      dropped == IF old.kind = "task" /\ old._routed_at \in ghost.unread
                   THEN { old._routed_at } ELSE { }
  IN  [ghost EXCEPT !.ndisp  = IF n = 0 THEN @ ELSE n,
                    !.unread = (@ \ dropped) \cup (IF n = 0 THEN { } ELSE { n }),
                    !.lost   = @ \cup dropped]

\* A write that fails when the file exists (flag 'wx'): the old content stays.
WriteFileIfAbsent(old, new) == IF old.kind = "empty" THEN new ELSE old

\* What writeFile(taskFile, ...) leaves in the mailbox file.
WriteFile(old, new) == new

\* dispatchToAgent, lines 200-210: writeFile of the enriched task to the
\* agent's current-task.json; the agent's watcher sees the change.
PTDispatch(f, who) ==
  /\ files[f][who].pc = "dispatch"
  /\ CanRun(f, who)
  /\ LET a == files[f][who].agent
         n == ghost.ndisp + 1
     IN  /\ mailbox' = [mailbox EXCEPT ![a] = WriteFile(@, Enriched(files[f].task, f, n))]
         /\ mbEvent' = [mbEvent EXCEPT ![a] = TRUE]
         /\ ghost' = Overwrite(a, n)
         /\ files' = [files EXCEPT ![f][who].pc = IF files[f].task.id # NoId
                                                    THEN "status" ELSE "rename",
                                   ![f][who].stamp = n,
                                   ![f].writes = @ + 1]
  /\ UNCHANGED << rtask, routed, recall, db, hc, pk, orch, store, sentry, pollQueue, clarkWork, results, clark >>

\* dispatchToAgent has returned: processTask goes on to the rename (line
\* 358), the loop of executeWorkflow to its next subtask or, after the last
\* one, back to processTask and its rename (lines 280-305, 322-324).
AfterDispatch(inv) ==
  IF inv.subs # << >> /\ inv.i < Len(inv.subs)
    THEN [inv EXCEPT !.pc = "subtask", !.i = @ + 1]
    ELSE [inv EXCEPT !.pc = "rename"]

\* dispatchToAgent, lines 214-216, and requestClarkUpdate: the status
\* request is written to Clark's mailbox; dispatchToAgent returns.
PTStatus(f, who) ==
  /\ files[f][who].pc = "status"
  /\ CanRun(f, who)
  /\ mailbox' = [mailbox EXCEPT !["clark"] = WriteFile(@, UpdateTask(files[f].task.id))]
  /\ mbEvent' = [mbEvent EXCEPT !["clark"] = TRUE]
  /\ ghost' = Overwrite("clark", 0)
  /\ files' = [files EXCEPT ![f][who] = AfterDispatch(@)]
  /\ UNCHANGED << rtask, routed, recall, db, hc, pk, orch, store, sentry, pollQueue, clarkWork, results, clark >>

\* processTask, lines 358-360: rename(filepath, processed/filename); it
\* throws when another invocation has moved the file, and the catch returns.
PTRename(f, who) ==
  /\ files[f][who].pc = "rename"
  /\ CanRun(f, who)
  /\ files' = [files EXCEPT ![f][who].pc = "done",
                            ![f].loc = IF @ = "inbox" THEN "processed" ELSE @]
  /\ pollQueue' = AfterReturn(who)
  /\ UNCHANGED << rtask, routed, recall, db, hc, pk, orch, store, sentry, mailbox, mbEvent, clarkWork, results, clark, ghost >>

----------------------------------------------------------------------------
(* Orchestrator: the fallbacks of processTask for a task the keyword       *)
(* router does not place: classifyWithOpenClaw, decomposeTask and          *)
(* executeWorkflow, and the unroutable error record.                       *)

Whitespace == { " ", "\n", "\t", "\r" }

\* String.prototype.trim.
trim(s) ==
  LET solid == { i \in 1..Len(s) : s[i] \notin Whitespace }
  IN  IF solid = { } THEN << >>
      ELSE SubSeq(s, CHOOSE i \in solid : \A j \in solid : i <= j,
                     CHOOSE i \in solid : \A j \in solid : j <= i)

\* s.split('\n').pop(): what follows the last line break of s.
lastLine(s) ==
  LET breaks == { i \in 1..Len(s) : s[i] = "\n" }
  IN  IF breaks = { } THEN s
      ELSE SubSeq(s, (CHOOSE i \in breaks : \A j \in breaks : j <= i) + 1, Len(s))

\* The worker vocabulary of the classifier, line 190.
CLASSIFIER_AGENTS ==
  << [key |-> <<"m","a","g","n","u","s">>, agent |-> "magnus"],
     [key |-> <<"p","e","t","e">>, agent |-> "pete"],
     [key |-> <<"c","a","e","s","a","r">>, agent |-> "caesar"],
     [key |-> <<"m","a","g","g","i","e">>, agent |-> "maggie"],
     [key |-> <<"c","l","a","r","k">>, agent |-> "clark"],
     [key |-> <<"s","e","n","t","r","y">>, agent |-> "sentry"],
     [key |-> <<"s","c","o","u","t">>, agent |-> "scout"],
     [key |-> <<"o","r","a","c","l","e">>, agent |-> "oracle"] >>

\* What the call of the external classifier comes to: exec resolves with
\* the text on stdout, or rejects (exit code, timeout after 30 s).
ClassifierOutcomes ==
  { [kind |-> "error"],
    [kind |-> "stdout", text |-> <<"m","a","g","g","i","e","\n">>],
    [kind |-> "stdout", text |-> <<" ","P","e","t","e"," ">>],
    [kind |-> "stdout", text |-> <<"I"," ","p","i","c","k",":","\n","s","c","o","u","t"," ","\n">>],
    [kind |-> "stdout", text |-> <<"c","l","a","r","k","\n","i","t"," ","f","i","t","s">>],
    [kind |-> "stdout", text |-> <<"b","o","b">>],
    [kind |-> "stdout", text |-> <<"p","e","t","e","r">>],
    [kind |-> "stdout", text |-> << >>] }

\* classifyWithOpenClaw without the vocabulary test: the last line as it is.
classifyUnchecked(outcome) ==
  IF outcome.kind = "error" THEN "none"
  ELSE LET agent == trim(lastLine(toLowerCase(trim(outcome.text))))
       IN  IF HasOwn(CLASSIFIER_AGENTS, agent) THEN Lookup(CLASSIFIER_AGENTS, agent)
           ELSE "other"

\* classifyWithOpenClaw, lines 184-196: the last line of the trimmed,
\* lowercased output, trimmed, when it is in the vocabulary; else null.
classifyWithOpenClaw(outcome) ==
  IF outcome.kind = "error" THEN "none"
  ELSE LET agent == trim(lastLine(toLowerCase(trim(outcome.text))))
       IN  IF HasOwn(CLASSIFIER_AGENTS, agent) THEN Lookup(CLASSIFIER_AGENTS, agent)
           ELSE "none"

\* depends_on: null.
NoDependency == -1

\* One entry of the decomposer's array, as the prompt asks for it.
Subtask(agent, dep) == [agent |-> agent, description |-> <<"s","t","e","p">>, depends_on |-> dep]

\* What the call of the external decomposer comes to: exec rejects or
\* JSON.parse throws ("error"), the output has no bracketed part
\* ("nomatch"), or the bracketed part parses to an array.
DecomposerOutcomes ==
  { [kind |-> "error"],
    [kind |-> "nomatch"],
    [kind |-> "json", value |-> << >>],
    [kind |-> "json", value |-> << Subtask("pete", NoDependency) >>],
    [kind |-> "json", value |-> << Subtask("pete", NoDependency), Subtask("maggie", 0) >>],
    [kind |-> "json", value |-> << Subtask("maggie", 1), Subtask("pete", NoDependency) >>],
    [kind |-> "json", value |-> << Subtask("pete", NoDependency), Subtask("bob", 0) >>],
    [kind |-> "json", value |-> << Subtask("bob", NoDependency), Subtask("carl", 0) >>],
    [kind |-> "json", value |-> << Subtask("scout", NoDependency), Subtask("clark", 0),
                                   Subtask("maggie", 1) >>],
    [kind |-> "json", value |-> << Subtask("scout", NoDependency), Subtask("magnus", 0),
                                   Subtask("caesar", 1), Subtask("pete", 2),
                                   Subtask("maggie", 3) >>],
    [kind |-> "json", value |-> << Subtask("scout", NoDependency), Subtask("magnus", 0),
                                   Subtask("caesar", 1), Subtask("pete", 2),
                                   Subtask("maggie", 3), Subtask("oracle", 4) >>] }

\* decomposeTask, lines 254-271: null unless the output holds an array of 1
\* to 5 entries.
decomposeTask(outcome) ==
  IF outcome.kind # "json" THEN [ok |-> FALSE]
  ELSE IF Len(outcome.value) = 0 \/ Len(outcome.value) > 5 THEN [ok |-> FALSE]
  ELSE [ok |-> TRUE, subtasks |-> outcome.value]

\* executeWorkflow with the test subtasks.length <= 1 missing.
AcceptedAnyLength(d) == d.ok

\* executeWorkflow, line 276: if (!subtasks || subtasks.length <= 1) return false.
Accepted(d) == d.ok /\ Len(d.subtasks) > 1

\* executeWorkflow, line 284: the subtask's agent is one of the eight names.
KnownWorker(sub) == sub.agent \in Agents

\* executeWorkflow, lines 289-298: subtaskData for the subtask at place i
\* (counted from 1) of n, of the task in the inbox file f.
SubtaskData(task, sub, i, n, f) ==
  Spread(task, [type             |-> IF task.type \in { NoField, << >> }
                                       THEN <<"g","e","n","e","r","a","l">> ELSE task.type,
                description      |-> sub.description,
                _workflow        |-> TRUE,
                _workflow_step   |-> i,
                _workflow_total  |-> n,
                _parent_task_id  |-> task.id,
                _source_file     |-> f])

\* workflow-<filename without .json>-step<i>.json, line 300.  File names are
\* numbers here: the inbox files are 1..Len(files), and the derived name is
\* a number of its own for each file f and step i (i is at most 5), the
\* name of no inbox file.
SubFilename(f, i) == 100 * f + i

\* task.description && task.description.length > 200, line 339.
DecomposeThreshold == 200

\* The test with >= in place of >.
IsLongFrom200(task) == task.description # NoField /\ Len(task.description) >= DecomposeThreshold

IsLong(task) == task.description # NoField /\ Len(task.description) > DecomposeThreshold

\* errorTask, line 351.
ErrorRecord(task) ==
  Spread(task, [_error |-> "Could not determine target agent", _status |-> "unroutable"])

MaxPolls == 2

\* startInboxPoller: the 30-second timer fires and pollInbox lists the inbox.
PollTick ==
  /\ orch.polls < MaxPolls
  /\ PollBegin
  /\ orch' = [orch EXCEPT !.polls = @ + 1]
  /\ UNCHANGED << rtask, routed, recall, db, hc, pk, store, sentry, mailbox, mbEvent, clarkWork, results, clark, ghost >>

\* processTask, lines 333-347: classifyWithOpenClaw; with a worker go on to
\* dispatch; without one, decomposition when the description is longer than
\* 200 characters, else the error record.
PTClassify(f, who) ==
  /\ files[f][who].pc = "classify"
  /\ CanRun(f, who)
  /\ \E outcome \in ClassifierOutcomes :
       LET agent == classifyWithOpenClaw(outcome)
       IN  files' = [files EXCEPT ![f][who] =
                       IF agent # "none" THEN [@ EXCEPT !.pc = "dispatch", !.agent = agent]
                       ELSE IF IsLong(files[f].task)
                              THEN [@ EXCEPT !.pc = "decompose", !.via = "fallback"]
                              ELSE [@ EXCEPT !.pc = "error"]]
  /\ orch' = [orch EXCEPT !.classified = @ + 1]
  /\ UNCHANGED << rtask, routed, recall, db, hc, pk, store, sentry, pollQueue, mailbox, mbEvent, clarkWork, results, clark, ghost >>

\* executeWorkflow, lines 275-278: decomposeTask and the test of its result.
\* Not handled: the explicit workflow goes on to routeTask (line 330), the
\* fallback to the error record (line 349).
PTDecomposeWith(f, who, outcomes) ==
  /\ files[f][who].pc = "decompose"
  /\ CanRun(f, who)
  /\ \E outcome \in outcomes :
       LET d == decomposeTask(outcome)
       IN  files' = [files EXCEPT ![f][who] =
                       IF Accepted(d)
                         THEN [@ EXCEPT !.pc = "subtask", !.subs = d.subtasks, !.i = 1]
                         ELSE IF @.via = "explicit" THEN Routed(files[f].task)
                         ELSE [@ EXCEPT !.pc = "error"]]
  /\ orch' = [orch EXCEPT !.decomposed = @ + 1]
  /\ UNCHANGED << rtask, routed, recall, db, hc, pk, store, sentry, pollQueue, mailbox, mbEvent, clarkWork, results, clark, ghost >>

PTDecompose(f, who) == PTDecomposeWith(f, who, DecomposerOutcomes)

\* executeWorkflow, lines 280-302, one turn of the loop: a subtask with an
\* unknown agent is skipped; else dispatchToAgent(agent, subtaskData,
\* subFilename) writes the agent's mailbox.
PTSubtask(f, who) ==
  /\ files[f][who].pc = "subtask"
  /\ CanRun(f, who)
  /\ LET inv == files[f][who]
         sub == inv.subs[inv.i]
         n   == ghost.ndisp + 1
         data == Enriched(SubtaskData(files[f].task, sub, inv.i, Len(inv.subs), f),
                          SubFilename(f, inv.i), n)
     IN  IF ~KnownWorker(sub)
           THEN /\ files' = [files EXCEPT ![f][who] = AfterDispatch(@)]
                /\ UNCHANGED << mailbox, mbEvent, ghost, orch >>
           ELSE /\ mailbox' = [mailbox EXCEPT ![sub.agent] = WriteFile(@, data)]
                /\ mbEvent' = [mbEvent EXCEPT ![sub.agent] = TRUE]
                /\ ghost' = Overwrite(sub.agent, n)
                /\ orch' = [orch EXCEPT !.log = Append(@, [f |-> f, who |-> who, step |-> inv.i, sub |-> sub,
                                                           to |-> sub.agent, data |-> data])]
                /\ files' = [files EXCEPT ![f][who] =
                                IF files[f].task.id # NoId
                                  THEN [@ EXCEPT !.pc = "status", !.stamp = n]
                                  ELSE [AfterDispatch(@) EXCEPT !.stamp = n]]
  /\ UNCHANGED << rtask, routed, recall, db, hc, pk, store, sentry, pollQueue, clarkWork, results, clark >>

\* The awaits of processTask that throw in one run of the orchestrator.
MaxFaults == 2

\* The poll loop after an exception that left processTask: the catch of
\* pollInbox ends the loop.
AfterThrow(who) == IF who = "poll" THEN << >> ELSE pollQueue

\* The poll loop after the catch of processTask (lines 362-364) returned:
\* pollInbox goes on to its next file (lines 376-378).
AfterCatch(who) == AfterReturn(who)

\* A catch that moves the file out of the inbox all the same.
CatchFileMoved(file, who) == [file EXCEPT ![who].pc = "done", !.loc = "processed"]

\* The inbox file after the catch of processTask: the invocation is over,
\* the file is where it was.
CatchFile(file, who) == [file EXCEPT ![who].pc = "done"]

\* processTask, lines 313-364: an await of the try block throws and the
\* catch logs it: readFile or JSON.parse (313-314), writeFile of the
\* mailbox in dispatchToAgent (210) or of the status request in
\* requestClarkUpdate (229), writeFile of the error file (352), mkdir or
\* rename (358-360).  The statements after the throwing one are not run.
PTCatch(f, who) ==
  /\ files[f][who].pc \in { "start", "dispatch", "status", "error", "rename" }
  /\ CanRun(f, who)
  /\ files[f].loc = "inbox"
  /\ Len(orch.caught) < MaxFaults
  /\ orch' = [orch EXCEPT !.caught = Append(@, [f |-> f, who |-> who, at |-> files[f][who].pc,
                                                 polls |-> orch.polls])]
  /\ files' = [files EXCEPT ![f] = CatchFile(@, who)]
  /\ pollQueue' = AfterCatch(who)
  /\ UNCHANGED << rtask, routed, recall, db, hc, pk, store, sentry, mailbox, mbEvent, clarkWork, results, clark, ghost >>

\* processTask, lines 349-353: the error record is written to the outbox as
\* error-<filename> and processTask returns; the file stays in the inbox.
PTError(f, who) ==
  /\ files[f][who].pc = "error"
  /\ CanRun(f, who)
  /\ orch' = [orch EXCEPT !.errors = Append(@, [f |-> f, who |-> who,
                                                record |-> ErrorRecord(files[f].task)])]
  /\ files' = [files EXCEPT ![f][who].pc = "done"]
  /\ pollQueue' = AfterReturn(who)
  /\ UNCHANGED << rtask, routed, recall, db, hc, pk, store, sentry, mailbox, mbEvent, clarkWork, results, clark, ghost >>

----------------------------------------------------------------------------
(* Workers.                                                                *)

\* The workers built from agent-template/main.js.
ContainerWorkers == { "magnus", "pete", "caesar", "maggie", "scout" }

\* A result file as a worker writes it to the outbox.  pc is the state of
\* the Reconciler's handling of it: the outbox watcher reports a new file
\* only while it runs.
NewResult(agent, source, stamp) ==
  [agent |-> agent, task_source |-> source, task_id |-> NoId, disp |-> stamp,
   loc |-> "outbox", pc |-> IF clark.watching THEN "event" ELSE "none",
   taskId |-> NoId, fetched |-> << >>, applied |-> 0,
   output_file |-> "none", text |-> TRUE, upload |-> "none", deliverable |-> "unset"]

\* agent-template handleTask and processTask: on the watcher's event read
\* current-task.json as it is now, do the work, write one result file with
\* task_source = task._source_file.
WorkerHandle(w) ==
  /\ mbEvent[w]
  /\ mailbox[w].kind = "task"
  /\ mbEvent' = [mbEvent EXCEPT ![w] = FALSE]
  /\ results' = Append(results, NewResult(w, mailbox[w]._source_file, mailbox[w]._routed_at))
  /\ ghost' = [ghost EXCEPT !.unread = @ \ { mailbox[w]._routed_at }]
  /\ UNCHANGED << rtask, routed, recall, db, hc, pk, orch, store, sentry, files, pollQueue, mailbox, clarkWork, clark >>

\* Restarts of one kind of process in one run.
MaxRestarts == 1

\* A container worker is stopped and started again (agent-template main,
\* lines 55-76; scout main, lines 183-215): events not yet delivered are
\* gone, and the new watcher, created with ignoreInitial: false, reports
\* 'add' for the mailbox file that is there.  No worker deletes or marks
\* its mailbox file.
WorkerRestart(w) ==
  /\ ghost.wrestarts < MaxRestarts
  /\ mailbox[w].kind = "task"
  /\ mbEvent' = [mbEvent EXCEPT ![w] = TRUE]
  /\ ghost' = [ghost EXCEPT !.wrestarts = @ + 1]
  /\ UNCHANGED << rtask, routed, recall, db, hc, pk, orch, store, sentry, files, pollQueue, mailbox, clarkWork, results, clark >>

\* oracle/runner.js executeOracle, lines 145-154: the object that the runner
\* writes to the outbox as oracle-<time>.json.
OracleOutput(task) ==
  [_agent |-> "oracle", _source_file |-> task._source_file, _task_type |-> task.task.type]

\* result.<field> as processOutboxFile and resolveTaskContext read it: the
\* value, or the given reading of undefined.
Field(file, name, undefined) == IF name \in DOMAIN file THEN file[name] ELSE undefined

\* oracle/runner.js processTask, lines 176-194: on the watcher's event read
\* current-task.json, run the task, write the result file, remove the task
\* file.
OracleHandle ==
  /\ mbEvent["oracle"]
  /\ mailbox["oracle"].kind = "task"
  /\ mbEvent' = [mbEvent EXCEPT !["oracle"] = FALSE]
  /\ LET out == OracleOutput(mailbox["oracle"])
     IN  results' = Append(results,
                      [NewResult("oracle", Field(out, "task_source", UnknownSource),
                                 mailbox["oracle"]._routed_at)
                         EXCEPT !.task_id = Field(out, "task_id", NoId)])
  /\ mailbox' = [mailbox EXCEPT !["oracle"] = NoTask]
  /\ ghost' = [ghost EXCEPT !.unread = @ \ { mailbox["oracle"]._routed_at }]
  /\ UNCHANGED << rtask, routed, recall, db, hc, pk, orch, store, sentry, files, pollQueue, clarkWork, clark >>

\* Clark handleTask: read current-task.json.  A task-write record goes on to
\* writeToTable; any other task is answered at once with a clark-*.json file.
ClarkRead ==
  /\ clark.watching
  /\ mbEvent["clark"]
  /\ mailbox["clark"] # NoTask
  /\ mbEvent' = [mbEvent EXCEPT !["clark"] = FALSE]
  /\ IF mailbox["clark"].kind = "task-write"
       THEN /\ clarkWork' = clarkWork \cup { mailbox["clark"].record.id }
            /\ UNCHANGED << results, ghost >>
       ELSE /\ results' = Append(results, NewResult("clark", mailbox["clark"]._source_file,
                                                    mailbox["clark"]._routed_at))
            /\ ghost' = [ghost EXCEPT !.unread = @ \ { mailbox["clark"]._routed_at }]
            /\ UNCHANGED clarkWork
  /\ UNCHANGED << rtask, routed, recall, db, hc, pk, orch, store, sentry, files, pollQueue, mailbox, clark >>

\* Clark processTask, task-write branch: writeToTable('tasks', record) upserts
\* {id, status}, or returns the store's error; then the clark-*.json output
\* is written (task_source 'unknown': the status request carries no
\* _source_file).
ClarkWrite(t) ==
  /\ t \in clarkWork
  /\ clarkWork' = clarkWork \ { t }
  /\ \/ store' = [store EXCEPT ![t].status = "in_progress"]
     \/ UNCHANGED store
  /\ results' = Append(results, NewResult("clark", UnknownSource, 0))
  /\ UNCHANGED << rtask, routed, recall, db, hc, pk, orch, sentry, files, pollQueue, mailbox, mbEvent, clark, ghost >>

----------------------------------------------------------------------------
(* Clark's Reconciler: processOutboxFile, processExistingOutbox and        *)
(* watchOutbox.  The store client is configured (the dry-run mode without  *)
(* credentials handles nothing).  No task file of this repository carries  *)
(* a top-level _conversation_id, so the chat branch is never taken.        *)

\* filename.startsWith('clark-'): workers name their files <agent>-<time>.json.
IsOwnOutput(r) == results[r].agent = "clark"

\* resolveTaskContext with the two sources in the other order: the id of
\* the processed copy first, the result's task_id when there is no copy.
resolveFromCopyFirst(result) ==
  IF /\ result.task_source # UnknownSource
     /\ result.task_source \in 1..Len(files)
     /\ files[result.task_source].loc = "processed"
     /\ files[result.task_source].task.id # NoId
    THEN files[result.task_source].task.id
    ELSE result.task_id

\* resolveTaskContext: the result's task_id, else the id in the processed
\* copy of the inbox file that task_source names, else null.
resolveTaskContext(result) ==
  IF result.task_id # NoId THEN result.task_id
  ELSE IF /\ result.task_source # UnknownSource
          /\ result.task_source \in 1..Len(files)
          /\ files[result.task_source].loc = "processed"
         THEN files[result.task_source].task.id
         ELSE NoId

\* processOutboxFile(r) is called for the watcher's add event of r, or by
\* the startup scan when r is the file it has come to.
CanHandle(r) ==
  \/ clark.watching /\ results[r].pc = "event"
  \/ ~clark.watching /\ clark.scan # << >> /\ Head(clark.scan) = r /\ results[r].pc = "none"

\* processOutboxFile returned: the startup scan goes on to its next file.
ScanAfter(r) ==
  IF clark.scan # << >> /\ Head(clark.scan) = r
    THEN [clark EXCEPT !.scan = Tail(@)] ELSE clark

\* The handler returns and the rename is missing.
ArchiveLeavesFile(res) == [res EXCEPT !.pc = "done"]

\* rename(filepath, PROCESSED_DIR/filename), lines 510-513.
Archive(res) == [res EXCEPT !.loc = "processed", !.pc = "done"]

\* processOutboxFile, lines 407-423: skip Clark's own files, read and parse
\* the file, resolve the task; without a task id go straight to the move.
RStart(r) ==
  /\ CanHandle(r)
  /\ IF IsOwnOutput(r)
       THEN /\ results' = [results EXCEPT ![r].pc = "skipped"]
            /\ clark' = ScanAfter(r)
       ELSE LET id == resolveTaskContext(results[r])
            IN  IF id = NoId
                  THEN /\ results' = [results EXCEPT ![r] = Archive(@)]
                       /\ clark' = ScanAfter(r)
                  ELSE /\ results' = [results EXCEPT ![r].pc = "fetch", ![r].taskId = id]
                       /\ clark' = clark
  /\ UNCHANGED << rtask, routed, recall, db, hc, pk, orch, store, sentry, files, pollQueue, mailbox, mbEvent, clarkWork, ghost >>

\* processOutboxFile, lines 425-434: select updates of the task; a fetch
\* error is logged and the file is moved.
RFetch(r) ==
  /\ results[r].pc = "fetch"
  /\ \/ /\ results' = [results EXCEPT ![r].pc = "update",
                                      ![r].fetched = store[results[r].taskId].updates]
        /\ clark' = clark
     \/ /\ results' = [results EXCEPT ![r] = Archive(@)]
        /\ clark' = ScanAfter(r)
  /\ UNCHANGED << rtask, routed, recall, db, hc, pk, orch, store, sentry, files, pollQueue, mailbox, mbEvent, clarkWork, ghost >>

\* An update that sets the status and leaves the list alone.
UpdateRowStatusOnly(row, fetched, entry) == [row EXCEPT !.status = "done"]

\* The row after update({updates, status: 'done'}).eq('id', taskId), where
\* updates is the fetched list with the new entry pushed.
UpdateRow(row, fetched, entry) ==
  [row EXCEPT !.updates = Append(fetched, entry), !.status = "done"]

\* What stat and uploadDeliverable can do with the file a result names in
\* output_file: no file named, stat throws on a file that is not there, and
\* for a file that is there the read or the upload fails (null) or the
\* upload succeeds.
UploadOutcomes(result) ==
  IF result.output_file = "none" THEN { "none" }
  ELSE IF result.output_file = "missing" THEN { "failed" }
  ELSE { "failed", "uploaded" }

\* The entry carries the file whenever the result names one.
DeliverableFileAlways(result, up) ==
  IF result.output_file # "none" THEN "file"
  ELSE IF result.text THEN "text" ELSE "none"

\* updateEntry.deliverable, lines 443-468: the uploaded file; else a text
\* deliverable when result.result is a non-empty string; else null.
Deliverable(result, up) ==
  IF up = "uploaded" THEN "file"
  ELSE IF result.text THEN "text" ELSE "none"

\* processOutboxFile, lines 436-513: build the entry, push it, update the
\* task (an update error is logged), move the file.
RUpdate(r) ==
  /\ results[r].pc = "update"
  /\ \E up \in UploadOutcomes(results[r]) :
       LET built == [results[r] EXCEPT !.upload = up,
                                       !.deliverable = Deliverable(results[r], up)]
       IN  \/ /\ store' = [store EXCEPT ![results[r].taskId] =
                              UpdateRow(@, results[r].fetched, r)]
              /\ results' = [results EXCEPT ![r] = [Archive(built) EXCEPT !.applied = @ + 1]]
           \/ /\ store' = store
              /\ results' = [results EXCEPT ![r] = Archive(built)]
  /\ clark' = ScanAfter(r)
  /\ UNCHANGED << rtask, routed, recall, db, hc, pk, orch, sentry, files, pollQueue, mailbox, mbEvent, clarkWork, ghost >>

\* Clark is stopped (SIGTERM) and started again: main runs
\* processExistingOutbox, whose readdir lists the .json files of the outbox.
\* Events not yet delivered and status writes not yet made are gone.  The
\* restart falls between two runs of processOutboxFile.
ClarkRestart ==
  /\ clark.restarts < MaxRestarts
  /\ \A r \in 1..Len(results) : results[r].pc \notin { "fetch", "update" }
  /\ clark' = [watching |-> FALSE, scan |-> Ascending(Outbox), restarts |-> clark.restarts + 1,
               seen |-> { r \in 1..Len(results) : results[r].loc = "processed" }]
  /\ results' = [r \in 1..Len(results) |->
                   IF results[r].loc = "outbox" THEN [results[r] EXCEPT !.pc = "none"]
                   ELSE results[r]]
  /\ clarkWork' = { }
  /\ UNCHANGED << rtask, routed, recall, db, hc, pk, orch, store, sentry, files, pollQueue, mailbox, mbEvent, ghost >>

\* main, lines 649-659: the scan is over; watchOutbox (ignoreInitial: true)
\* and the mailbox watcher (ignoreInitial: false, so the file lying in the
\* mailbox is reported as added) start.
ClarkWatch ==
  /\ ~clark.watching
  /\ clark.scan = << >>
  /\ clark' = [clark EXCEPT !.watching = TRUE]
  /\ mbEvent' = [mbEvent EXCEPT !["clark"] = mailbox["clark"] # NoTask]
  /\ UNCHANGED << rtask, routed, recall, db, hc, pk, orch, store, sentry, files, pollQueue, mailbox, clarkWork, results, ghost >>

----------------------------------------------------------------------------

PipeNext ==
  \/ \E t \in DOMAIN store : SentryDrop(t)
  \/ \E t \in DOMAIN store : SentryMark(t)
  \/ PollStart
  \/ \E f \in 1..Len(files), who \in { "watch", "poll" } : PTRead(f, who)
  \/ \E f \in 1..Len(files), who \in { "watch", "poll" } : PTDispatch(f, who)
  \/ \E f \in 1..Len(files), who \in { "watch", "poll" } : PTStatus(f, who)
  \/ \E f \in 1..Len(files), who \in { "watch", "poll" } : PTRename(f, who)
  \/ \E w \in ContainerWorkers : WorkerHandle(w)
  \/ ClarkRead
  \/ \E t \in DOMAIN store : ClarkWrite(t)
  \/ \E r \in 1..Len(results) : RStart(r)
  \/ \E r \in 1..Len(results) : RFetch(r)
  \/ \E r \in 1..Len(results) : RUpdate(r)
  \/ ClarkRestart
  \/ ClarkWatch

\* The routing harness at rest.
RouteIdle ==
  /\ rtask = [type |-> NoField, assigned_to |-> NoField, description |-> NoField]
  /\ routed = "unset"
  /\ recall = "unset"

Init == PipeInit(OneRecord) /\ RouteIdle /\ DbRest /\ HcRest /\ PkRest

Next == PipeNext

\* One task record through the whole pipeline, with the watcher and the
\* poller of the orchestrator and with restarts of Clark.
Spec == Init /\ [][Next]_vars

\* The same with every component running on: a step that can be taken is
\* taken in the end (each process is a long-lived event loop).
FairSpec == Init /\ [][Next]_vars /\ WF_vars(Next)

\* The pipeline with Clark running on without a restart.
CalmNext ==
  \/ \E t \in DOMAIN store : SentryDrop(t)
  \/ \E t \in DOMAIN store : SentryMark(t)
  \/ PollStart
  \/ \E f \in 1..Len(files), who \in { "watch", "poll" } : PTRead(f, who)
  \/ \E f \in 1..Len(files), who \in { "watch", "poll" } : PTDispatch(f, who)
  \/ \E f \in 1..Len(files), who \in { "watch", "poll" } : PTStatus(f, who)
  \/ \E f \in 1..Len(files), who \in { "watch", "poll" } : PTRename(f, who)
  \/ \E w \in ContainerWorkers : WorkerHandle(w)
  \/ ClarkRead
  \/ \E t \in DOMAIN store : ClarkWrite(t)
  \/ \E r \in 1..Len(results) : RStart(r)
  \/ \E r \in 1..Len(results) : RFetch(r)
  \/ \E r \in 1..Len(results) : RUpdate(r)

CalmInit == Init

\* Every component is an event loop that keeps running: a step that can be
\* taken is taken in the end.
CalmSpec == CalmInit /\ [][CalmNext]_vars /\ WF_vars(CalmNext)

\* A record assigned to the escalation worker.
RowOracle ==
  [type |-> NoField, description |-> <<"r","e","v","i","e","w"," ","i","t">>,
   assigned_to |-> <<"o","r","a","c","l","e">>]

\* One record, for maggie or for the oracle runner, with every component
\* running on and no restart of Clark.
OracleInit ==
  PipeInit({ [t1 |-> RowEmail], [t1 |-> RowOracle] }) /\ RouteIdle /\ DbRest /\ HcRest /\ PkRest

OracleNext == CalmNext \/ OracleHandle

OracleSpec == OracleInit /\ [][OracleNext]_vars /\ WF_vars(OracleNext)

\* A burst: two task records are picked up together; the orchestrator's
\* watcher handles both files before the next poll, and Clark keeps running.
BurstNext ==
  \/ \E t \in DOMAIN store : SentryDrop(t)
  \/ \E t \in DOMAIN store : SentryMark(t)
  \/ \E f \in 1..Len(files) : PTRead(f, "watch")
  \/ \E f \in 1..Len(files) : PTDispatch(f, "watch")
  \/ \E f \in 1..Len(files) : PTStatus(f, "watch")
  \/ \E f \in 1..Len(files) : PTRename(f, "watch")
  \/ \E w \in ContainerWorkers : WorkerHandle(w)
  \/ ClarkRead
  \/ \E t \in DOMAIN store : ClarkWrite(t)
  \/ \E r \in 1..Len(results) : RStart(r)
  \/ \E r \in 1..Len(results) : RFetch(r)
  \/ \E r \in 1..Len(results) : RUpdate(r)

BurstInit == PipeInit(TwoRecords) /\ RouteIdle /\ DbRest /\ HcRest /\ PkRest

BurstSpec == BurstInit /\ [][BurstNext]_vars

\* The burst with every component running on.
BurstFairSpec == BurstInit /\ [][BurstNext]_vars /\ WF_vars(BurstNext)

----------------------------------------------------------------------------
(* The fallbacks: one task file dropped into the inbox by a producer, the  *)
(* orchestrator's watcher and poller, no worker running.                   *)

LongText == [i \in 1..(DecomposeThreshold + 1) |-> "z"]

\* A description of exactly 200 characters.
EdgeText == [i \in 1..DecomposeThreshold |-> "z"]

\* Task files as producers drop them.
DroppedTasks ==
  { [id |-> NoId, type |-> <<"g","e","n","e","r","a","l">>, assigned_to |-> NoField,
     description |-> <<"f","l","i","b">>],
    [id |-> "t9", type |-> <<"g","e","n","e","r","a","l">>, assigned_to |-> <<"A","N","Y">>,
     description |-> LongText],
    [id |-> NoId, type |-> NoField, assigned_to |-> NoField, description |-> LongText],
    [id |-> NoId, type |-> NoField, assigned_to |-> NoField, description |-> EdgeText],
    [id |-> "t9", type |-> <<"w","o","r","k","f","l","o","w">>, assigned_to |-> NoField,
     description |-> <<"o","r","d","e","r"," ","e","m","a","i","l">>],
    [id |-> NoId, type |-> NoField, assigned_to |-> NoField, workflow |-> TRUE,
     description |-> <<"f","l","i","b">>] }

FallbackInit ==
  /\ \E task \in DroppedTasks :
       files = << [task |-> task, loc |-> "inbox", watch |-> [Idle EXCEPT !.pc = "start"],
                   poll |-> Idle, writes |-> 0] >>
  /\ store = << >>
  /\ sentry = { }
  /\ pollQueue = << >>
  /\ mailbox = [a \in Agents |-> NoTask]
  /\ mbEvent = [a \in Agents |-> FALSE]
  /\ clarkWork = { }
  /\ results = << >>
  /\ clark = [watching |-> TRUE, scan |-> << >>, restarts |-> 0, seen |-> { }]
  /\ ghost = [ndisp |-> 0, unread |-> { }, lost |-> { },
              wrestarts |-> 0]
  /\ orch = [polls |-> 0, classified |-> 0, decomposed |-> 0, log |-> << >>, errors |-> << >>,
             caught |-> << >>]
  /\ DbRest
  /\ HcRest
  /\ PkRest
  /\ RouteIdle

FallbackNext ==
  \/ PollTick
  \/ \E f \in 1..Len(files), who \in { "watch", "poll" } : PTRead(f, who)
  \/ \E f \in 1..Len(files), who \in { "watch", "poll" } : PTClassify(f, who)
  \/ \E f \in 1..Len(files), who \in { "watch", "poll" } : PTDecompose(f, who)
  \/ \E f \in 1..Len(files), who \in { "watch", "poll" } : PTSubtask(f, who)
  \/ \E f \in 1..Len(files), who \in { "watch", "poll" } : PTDispatch(f, who)
  \/ \E f \in 1..Len(files), who \in { "watch", "poll" } : PTStatus(f, who)
  \/ \E f \in 1..Len(files), who \in { "watch", "poll" } : PTError(f, who)
  \/ \E f \in 1..Len(files), who \in { "watch", "poll" } : PTRename(f, who)

FallbackSpec == FallbackInit /\ [][FallbackNext]_vars

----------------------------------------------------------------------------
(* A workflow: one task file marked as a workflow, picked up from a record *)
(* of the store, with the orchestrator's watcher, the workers and Clark.   *)

WorkflowTask ==
  [id |-> "t9", type |-> <<"w","o","r","k","f","l","o","w">>, assigned_to |-> NoField,
   description |-> <<"o","r","d","e","r"," ","e","m","a","i","l">>]

\* The decomposer's answers with at most three subtasks.
WorkflowOutcomes == { o \in DecomposerOutcomes : o.kind = "json" => Len(o.value) <= 3 }

WorkflowInit ==
  /\ files = << InboxFile(WorkflowTask) >>
  /\ store = [t \in { "t9" } |->
               [status |-> "in_progress", updates |-> << >>,
                row |-> [type |-> WorkflowTask.type, description |-> WorkflowTask.description,
                         assigned_to |-> NoField]]]
  /\ sentry = { }
  /\ pollQueue = << >>
  /\ mailbox = [a \in Agents |-> NoTask]
  /\ mbEvent = [a \in Agents |-> FALSE]
  /\ clarkWork = { }
  /\ results = << >>
  /\ clark = [watching |-> TRUE, scan |-> << >>, restarts |-> 0, seen |-> { }]
  /\ ghost = [ndisp |-> 0, unread |-> { }, lost |-> { },
              wrestarts |-> 0]
  /\ orch = [polls |-> 0, classified |-> 0, decomposed |-> 0, log |-> << >>, errors |-> << >>,
             caught |-> << >>]
  /\ DbRest
  /\ HcRest
  /\ PkRest
  /\ RouteIdle

WorkflowNext ==
  \/ \E f \in 1..Len(files) : PTRead(f, "watch")
  \/ \E f \in 1..Len(files) : PTDecomposeWith(f, "watch", WorkflowOutcomes)
  \/ \E f \in 1..Len(files) : PTSubtask(f, "watch")
  \/ \E f \in 1..Len(files) : PTDispatch(f, "watch")
  \/ \E f \in 1..Len(files) : PTStatus(f, "watch")
  \/ \E f \in 1..Len(files) : PTRename(f, "watch")
  \/ \E w \in ContainerWorkers : WorkerHandle(w)
  \/ ClarkRead
  \/ \E t \in DOMAIN store : ClarkWrite(t)
  \/ \E r \in 1..Len(results) : RStart(r)
  \/ \E r \in 1..Len(results) : RFetch(r)
  \/ \E r \in 1..Len(results) : RUpdate(r)

WorkflowSpec == WorkflowInit /\ [][WorkflowNext]_vars

----------------------------------------------------------------------------
(* The pipeline from the record to the worker's result, with restarts of   *)
(* the worker's container.                                                 *)

RestartNext ==
  \/ \E t \in DOMAIN store : SentryDrop(t)
  \/ \E t \in DOMAIN store : SentryMark(t)
  \/ \E f \in 1..Len(files) : PTRead(f, "watch")
  \/ \E f \in 1..Len(files) : PTDispatch(f, "watch")
  \/ \E f \in 1..Len(files) : PTStatus(f, "watch")
  \/ \E f \in 1..Len(files) : PTRename(f, "watch")
  \/ \E w \in ContainerWorkers : WorkerHandle(w)
  \/ \E w \in ContainerWorkers : WorkerRestart(w)

RestartSpec == BurstInit /\ [][RestartNext]_vars

----------------------------------------------------------------------------
(* The orchestrator with two files in the inbox, one of a task of the      *)
(* store and one without an id, and awaits that can throw.                 *)

FaultInit ==
  /\ files = << InboxFile([id |-> "t1", type |-> RowEmail.type, assigned_to |-> NoField,
                           description |-> RowEmail.description]),
                InboxFile([id |-> NoId, type |-> RowEmail.type, assigned_to |-> NoField,
                           description |-> RowClark.description]) >>
  /\ store = [t \in { "t1" } |-> [status |-> "inbox", updates |-> << >>, row |-> RowEmail]]
  /\ sentry = { }
  /\ pollQueue = << >>
  /\ mailbox = [a \in Agents |-> NoTask]
  /\ mbEvent = [a \in Agents |-> FALSE]
  /\ clarkWork = { }
  /\ results = << >>
  /\ clark = [watching |-> TRUE, scan |-> << >>, restarts |-> 0, seen |-> { }]
  /\ ghost = [ndisp |-> 0, unread |-> { }, lost |-> { },
              wrestarts |-> 0]
  /\ orch = [polls |-> 0, classified |-> 0, decomposed |-> 0, log |-> << >>, errors |-> << >>,
             caught |-> << >>]
  /\ DbRest
  /\ HcRest
  /\ PkRest
  /\ RouteIdle

FaultNext ==
  \/ PollTick
  \/ \E f \in 1..Len(files), who \in { "watch", "poll" } : PTRead(f, who)
  \/ \E f \in 1..Len(files), who \in { "watch", "poll" } : PTDispatch(f, who)
  \/ \E f \in 1..Len(files), who \in { "watch", "poll" } : PTStatus(f, who)
  \/ \E f \in 1..Len(files), who \in { "watch", "poll" } : PTRename(f, who)
  \/ \E f \in 1..Len(files), who \in { "watch", "poll" } : PTCatch(f, who)

FaultSpec == FaultInit /\ [][FaultNext]_vars

----------------------------------------------------------------------------
(* The Reconciler with one result file in the outbox: with and without a   *)
(* task_id of its own, its task_source naming a file in processed, a file  *)
(* still in the inbox, no file at all, or being 'unknown'; with and        *)
(* without an output_file, which is there or not; its result text or not.  *)

ResolveInit ==
  /\ clark = [watching |-> TRUE, scan |-> << >>, restarts |-> 0, seen |-> { }]
  /\ \E id \in { NoId, "t1", "t2" }, loc \in { "inbox", "processed" } :
       files = << [InboxFile([id |-> id, type |-> RowEmail.type, assigned_to |-> NoField,
                              description |-> RowEmail.description])
                     EXCEPT !.loc = loc, !.watch = [Idle EXCEPT !.pc = "done"]] >>
  /\ \E id \in { NoId, "t1", "t2" }, source \in { UnknownSource, 1, 2 },
        out \in { "none", "missing", "present" }, text \in BOOLEAN :
       results = << [NewResult("maggie", source, 1)
                       EXCEPT !.task_id = id, !.pc = "event",
                              !.output_file = out, !.text = text] >>
  /\ store = [t \in { "t1", "t2" } |-> [status |-> "in_progress", updates |-> << >>, row |-> RowEmail]]
  /\ sentry = { }
  /\ pollQueue = << >>
  /\ mailbox = [a \in Agents |-> NoTask]
  /\ mbEvent = [a \in Agents |-> FALSE]
  /\ clarkWork = { }
  /\ ghost = [ndisp |-> 1, unread |-> { }, lost |-> { },
              wrestarts |-> 0]
  /\ orch = [polls |-> 0, classified |-> 0, decomposed |-> 0, log |-> << >>, errors |-> << >>,
             caught |-> << >>]
  /\ DbRest
  /\ HcRest
  /\ PkRest
  /\ RouteIdle

ResolveNext ==
  \/ \E r \in 1..Len(results) : RStart(r)
  \/ \E r \in 1..Len(results) : RFetch(r)
  \/ \E r \in 1..Len(results) : RUpdate(r)

ResolveSpec == ResolveInit /\ [][ResolveNext]_vars

----------------------------------------------------------------------------
(* The routing harness: routeTask applied to one task out of RouteInputs.  *)

RouteInit ==
  /\ rtask \in RouteInputs
  /\ routed = "unset"
  /\ recall = "unset"
  /\ PipeInit({ [t1 |-> RowEmail] })
  /\ DbRest
  /\ HcRest
  /\ PkRest

RouteCall ==
  /\ routed = "unset"
  /\ routed' = routeTask(rtask)
  /\ UNCHANGED << rtask, recall, db, hc, pk, pipeVars >>

\* A second call of routeTask on the same task, after whatever the pipeline
\* has done in between.
RouteAgain ==
  /\ routed # "unset"
  /\ recall = "unset"
  /\ recall' = routeTask(rtask)
  /\ UNCHANGED << rtask, routed, db, hc, pk, pipeVars >>

RouteNext == RouteCall

RouteSpec == RouteInit /\ [][RouteNext]_vars

\* Two calls on one task with descriptions of at most one word.
RecallInputs == { t \in RouteInputs : t.description \in { NoField } \cup Phrases(1) }

RecallInit ==
  /\ rtask \in RecallInputs
  /\ routed = "unset"
  /\ recall = "unset"
  /\ PipeInit({ [t1 |-> RowEmail] })
  /\ DbRest
  /\ HcRest
  /\ PkRest

\* Between the calls the pipeline runs: Sentry picks a record up, and the
\* orchestrator reads the file and writes a mailbox.
RecallNext ==
  \/ RouteCall
  \/ RouteAgain
  \/ \E t \in DOMAIN store : SentryDrop(t)
  \/ \E t \in DOMAIN store : SentryMark(t)
  \/ \E f \in 1..Len(files) : PTRead(f, "watch")
  \/ \E f \in 1..Len(files) : PTDispatch(f, "watch")

RecallSpec == RecallInit /\ [][RecallNext]_vars

----------------------------------------------------------------------------
(* Clark with one request in its mailbox, with and without credentials.    *)

\* A task with the given fields; "-" leaves the field out.
Request(type, table, record, user) ==
  LET given == [type |-> type, table |-> table, user_id |-> user]
      keys  == { k \in DOMAIN given : given[k] # "-" }
      base  == [k \in keys \cup { "id" } |-> IF k = "id" THEN "t1" ELSE given[k]]
  IN  IF record = << >> THEN base ELSE Spread(base, [record |-> record[1]])

\* Requests as they reach Clark's mailbox: queries and writes, with the
\* table inside and outside the allow-list.
WriteRequests ==
  { Request(type, table, record, user) :
      type \in { "-", "task-write", "log-activity" },
      table \in { "-", "tasks", "chat_messages", "customers", "auth_users" },
      record \in { << >>, << [id |-> "t1", status |-> "done"] >>,
                   << [id |-> "t2", status |-> "done", user_id |-> "u2"] >> },
      user \in { "-", "u1" } }

WriteInit ==
  /\ db \in { [pc |-> "new", supabase |-> c, task |-> t] : c \in BOOLEAN, t \in WriteRequests }
  /\ PipeInit({ [t1 |-> RowClark] })
  /\ RouteIdle
  /\ HcRest
  /\ PkRest

WriteNext == ClarkProcessTask

WriteSpec == WriteInit /\ [][WriteNext]_vars

----------------------------------------------------------------------------
(* The health monitor on its own: the check at start and the timer's.      *)

HealthInit == PipeInit({ [t1 |-> RowEmail] }) /\ RouteIdle /\ DbRest /\ HcRest /\ PkRest

HealthNext == RunHealthCheck

HealthSpec == HealthInit /\ [][HealthNext]_vars

----------------------------------------------------------------------------
(* Sentry's pickup of one record inserted by a producer and of one chat    *)
(* task, with a reset by an external actor.                                *)

PickupInit ==
  /\ store = [t \in { "t1" } |-> [status |-> "inbox", updates |-> << >>, row |-> RowEmail]]
  /\ pk = [PkIdle EXCEPT !.hooks = { "t1" }]
  /\ sentry = { }
  /\ files = << >>
  /\ pollQueue = << >>
  /\ mailbox = [a \in Agents |-> NoTask]
  /\ mbEvent = [a \in Agents |-> FALSE]
  /\ clarkWork = { }
  /\ results = << >>
  /\ clark = [watching |-> TRUE, scan |-> << >>, restarts |-> 0, seen |-> { }]
  /\ ghost = [ndisp |-> 0, unread |-> { }, lost |-> { },
              wrestarts |-> 0]
  /\ orch = [polls |-> 0, classified |-> 0, decomposed |-> 0, log |-> << >>, errors |-> << >>,
             caught |-> << >>]
  /\ RouteIdle
  /\ DbRest
  /\ HcRest

PickupNext ==
  \/ \E t \in DOMAIN store : HookReceive(t)
  \/ \E t \in DOMAIN store : HookMark(t)
  \/ SentryPollSelect
  \/ \E t \in DOMAIN store : SentryPollDrop(t)
  \/ SentryPollMark
  \/ ChatInsert
  \/ ChatDrop
  \/ ChatMark
  \/ \E t \in DOMAIN store : ExternalReset(t)

PickupSpec == PickupInit /\ [][PickupNext]_vars

\* One record: Sentry picks it up by webhook and by poll, an external actor
\* resets it, and the orchestrator's watcher takes up every file dropped.
WakeInit == PickupInit

WakeNext ==
  \/ \E t \in DOMAIN store : HookReceive(t)
  \/ \E t \in DOMAIN store : HookMark(t)
  \/ SentryPollSelect
  \/ \E t \in DOMAIN store : SentryPollDrop(t)
  \/ SentryPollMark
  \/ \E t \in DOMAIN store : ExternalReset(t)
  \/ \E f \in 1..Len(files) : PTRead(f, "watch")

\* Sentry and the orchestrator are event loops that keep running: a request
\* received is handled, an awaited call returns, a file added is reported.
\* Nothing obliges the poll timer or the external actor.
SentryStep ==
  \/ \E t \in DOMAIN store : HookReceive(t)
  \/ \E t \in DOMAIN store : HookMark(t)
  \/ \E t \in DOMAIN store : SentryPollDrop(t)
  \/ SentryPollMark

WakeFair ==
  /\ WF_vars(SentryStep)
  /\ WF_vars(\E f \in 1..Len(files) : PTRead(f, "watch"))

WakeSpec == WakeInit /\ [][WakeNext]_vars /\ WakeFair

----------------------------------------------------------------------------
(* Claims.                                                                 *)

AllResults == 1..Len(results)

AllFiles == 1..Len(files)

Invocations == { "watch", "poll" }

\* C1: whenever the Reconciler writes status done for a task, the store
\* showed status in_progress for that task just before.
C1_InProgressBeforeDone ==
  [][\A t \in DOMAIN store :
       (store[t].status # "done" /\ store'[t].status = "done")
         => store[t].status = "in_progress"]_vars

\* C2: every result file whose store update succeeded has its entry in the
\* updates list of its task: no entry is dropped or replaced by a later one.
C2_OneEntryPerResultFile ==
  \A r \in AllResults :
    results[r].applied > 0 =>
      \E i \in 1..Len(store[results[r].taskId].updates) :
        store[results[r].taskId].updates[i] = r

\* C3: every result file written to the outbox by a worker other than Clark
\* is in the end in the processed directory and stays there.  (The claim
\* says so of Clark's own files too; this is the part of it that does not
\* depend on the clark-* files, which processOutboxFile skips.)
C3_ResultFilesEventuallyArchived ==
  <>[](\A r \in AllResults : ~IsOwnOutput(r) => results[r].loc = "processed")

C5_FileDispatchedAtMostOnce ==
  \A f \in AllFiles : files[f].writes <= 1

\* C6: once a task has status done, no step changes its status.
C6_DoneIsTerminal ==
  [][\A t \in DOMAIN store :
       store[t].status = "done" => store'[t].status = "done"]_vars

\* C7: at the step with which dispatchToAgent(W, T, f) returns, the mailbox
\* of W holds T enriched with _routed_by, _routed_at and _source_file = f.
C7_MailboxHoldsEnrichedTask ==
  [][\A f \in AllFiles, who \in Invocations :
       (files[f][who].pc \in { "dispatch", "status" } /\ files'[f][who].pc = "rename")
         => mailbox'[files[f][who].agent] =
              Enriched(files[f].task, f, files'[f][who].stamp)]_vars

\* C8: a task whose mailbox content was replaced before the worker read it
\* is never read afterwards and no result file exists for it.
C8_OverwrittenTaskHasNoResult ==
  \A n \in ghost.lost :
    /\ n \notin ghost.unread
    /\ \A a \in Agents : mailbox[a].kind = "task" => mailbox[a]._routed_at # n
    /\ \A r \in AllResults : results[r].disp # n

\* C8 witness: two tasks went to the same worker, the first was replaced
\* unread, the worker has answered the second and has no event left.
C8_FirstTaskLost ==
  \E f \in AllFiles, g \in AllFiles :
    /\ f # g
    /\ files[f].watch.pc = "done" /\ files[g].watch.pc = "done"
    /\ files[f].watch.agent = files[g].watch.agent
    /\ files[f].watch.stamp \in ghost.lost
    /\ ~mbEvent[files[g].watch.agent]
    /\ \E r \in AllResults : results[r].disp = files[g].watch.stamp

\* The lowercased description contains an escalation keyword as a substring.
HasEscalationKeyword(task) ==
  \E i \in 1..Len(ORACLE_ROUTES) :
    includes(toLowerCase(OrEmpty(task.description)), ORACLE_ROUTES[i].key)

\* C9: a task whose lowercased description contains an escalation keyword
\* is routed to the escalation worker, whatever its type and assigned_to.
C9_EscalationKeywordWins ==
  (routed # "unset" /\ HasEscalationKeyword(rtask)) => routed = "oracle"

\* C9 witness: no assigned_to, a type of the ordinary table, a description
\* with an ordinary keyword before the escalation keyword.
C9_KeywordBeatsOrdinaryRoute ==
  /\ routed = "oracle"
  /\ rtask.assigned_to = NoField
  /\ rtask.type = <<"e","m","a","i","l">>
  /\ rtask.description = <<"o","r","d","e","r"," ","s","e","c","u","r","i","t","y">>

\* C10: a task whose assigned_to is the escalation worker's name in any
\* letter case is routed to the escalation worker.
C10_AssignedToOracleWins ==
  (routed # "unset" /\ toLowerCase(OrEmpty(rtask.assigned_to)) = <<"o","r","a","c","l","e">>)
    => routed = "oracle"

\* C10 witness: mixed-case assigned_to, ordinary type and description.
C10_MixedCaseAssignment ==
  /\ routed = "oracle"
  /\ rtask.assigned_to = <<"o","R","a","C","l","E">>
  /\ rtask.type = <<"e","m","a","i","l">>
  /\ rtask.description = <<"o","r","d","e","r"," ","d","o","c","u","m","e","n","t">>

\* The task has no escalation match: assigned_to is not the escalation
\* worker, the type is no key of the escalation table and the description
\* contains no escalation keyword.
NoEscalationMatch(task) ==
  /\ toLowerCase(OrEmpty(task.assigned_to)) # <<"o","r","a","c","l","e">>
  /\ ~HasOwn(ORACLE_ROUTES, toLowerCase(OrEmpty(task.type)))
  /\ ~HasEscalationKeyword(task)

\* C11: for a task with no escalation match routeTask returns the worker of
\* the ordinary-table entry whose key is the (lowercased) type if there is
\* one, else the worker of the first ordinary-table key, in declaration
\* order, contained in the lowercased description, else none; the result is
\* a known worker or none.
C11_OrdinaryRouteByTypeThenKeyword ==
  (routed # "unset" /\ NoEscalationMatch(rtask)) =>
    /\ routed = IF HasOwn(AGENT_ROUTES, toLowerCase(OrEmpty(rtask.type)))
                  THEN Lookup(AGENT_ROUTES, toLowerCase(OrEmpty(rtask.type)))
                  ELSE FirstKeyword(AGENT_ROUTES, toLowerCase(OrEmpty(rtask.description)))
    /\ routed \in Agents \cup { "none" }

\* C12: every call of the classifier is made by an invocation in which
\* routeTask returned none; the call leaves the invocation with a worker of
\* the fixed vocabulary and on its way to dispatch, or with no worker and
\* not on its way to dispatch; the call itself writes no mailbox, and a
\* dispatch that follows writes the mailbox of that worker.
C12_ClassifierOnlyAfterRouterAndInVocabulary ==
  [][/\ orch'.classified # orch.classified =>
          \E f \in AllFiles, who \in Invocations :
            /\ files[f][who].pc = "classify" /\ files'[f][who].pc # "classify"
            /\ files[f][who].router = "none"
     /\ \A f \in AllFiles, who \in Invocations :
          /\ (files[f][who].pc = "classify" /\ files'[f][who].pc # "classify") =>
               /\ orch'.classified = orch.classified + 1
               /\ files'[f][who].agent \in Agents \cup { "none" }
               /\ files'[f][who].pc = "dispatch" <=> files'[f][who].agent \in Agents
               /\ mailbox' = mailbox
          /\ (files[f][who].pc = "dispatch" /\ files'[f][who].pc # "dispatch") =>
               /\ files[f][who].agent \in Agents
               /\ files[f][who].router \in { files[f][who].agent, "none" }
               /\ \A a \in Agents : mailbox'[a] # mailbox[a] => a = files[f][who].agent]_vars

\* C12 witness: the classifier was called for a task the router did not
\* place and yielded nothing; the invocation has returned, the error record
\* is written and no mailbox has been written.
C12_ClassifierGaveNothing ==
  /\ orch.classified = 1
  /\ orch.decomposed = 0
  /\ files[1].watch.pc = "done"
  /\ Len(orch.errors) = 1
  /\ \A a \in Agents : mailbox[a] = NoTask

\* C13: for the one task file of the inbox the classifier is called at most
\* once over the whole time the file exists, later poll cycles included.
C13_ClassifiedAtMostOnce ==
  Len(files) = 1 => orch.classified <= 1

\* C14: an invocation whose decomposition has an entry naming a worker
\* outside the known set writes none of its subtasks to a mailbox and does
\* not go on to archive the file as handled.
C14_UnknownWorkerRejectsWhole ==
  [][\A f \in AllFiles, who \in Invocations :
       (/\ files[f][who].pc = "subtask"
        /\ \E i \in 1..Len(files[f][who].subs) : files[f][who].subs[i].agent \notin Agents
        /\ files'[f][who] # files[f][who]) =>
         /\ mailbox' = mailbox
         /\ files'[f][who].pc # "rename"]_vars

\* C15: the decomposer's output is accepted exactly when it is an array of 2
\* to 5 entries; an invocation leaves the decomposition step either in the
\* dispatch loop with 2 to 5 subtasks, or not handled: no subtasks, the file
\* not archived by the step, and on to routeTask (explicit workflow) or to the
\* error record (fallback); the step writes no mailbox, and subtasks are
\* written to mailboxes only from a decomposition of 2 to 5 entries.
C15_SubtasksOnlyForTwoToFive ==
  [][/\ \A o \in DecomposerOutcomes :
          Accepted(decomposeTask(o)) <=> (o.kind = "json" /\ Len(o.value) \in 2..5)
     /\ \A f \in AllFiles, who \in Invocations :
          /\ (files[f][who].pc = "decompose" /\ files'[f][who].pc # "decompose") =>
               /\ mailbox' = mailbox
               /\ orch'.log = orch.log
               /\ files'[f].loc = files[f].loc
               /\ \/ /\ files'[f][who].pc = "subtask"
                     /\ Len(files'[f][who].subs) \in 2..5
                  \/ /\ files'[f][who].subs = << >>
                     /\ IF files[f][who].via = "explicit"
                          THEN /\ files'[f][who].pc \in { "classify", "dispatch" }
                               /\ files'[f][who].router = routeTask(files[f].task)
                          ELSE files'[f][who].pc = "error"
          /\ (files[f][who].pc = "subtask" /\ files'[f][who] # files[f][who]) =>
               Len(files[f][who].subs) \in 2..5]_vars

\* C15 witness: the decomposition of an explicit workflow task was not
\* handled, no subtask was written, and the task has been routed by keyword
\* and dispatched through ordinary handling.
C15_NotHandledGoesOn ==
  /\ IsWorkflow(files[1].task)
  /\ orch.decomposed = 1
  /\ orch.log = << >>
  /\ files[1].watch.router \in Agents
  /\ files[1].watch.stamp # 0
  /\ files[1].loc = "processed"

\* The mailbox writes of executeWorkflow made by invocation who for file f.
WorkflowWrites(log, f, who) ==
  LET Mine(e) == e.f = f /\ e.who = who
  IN  SelectSeq(log, Mine)

\* C16: when executeWorkflow returns from the loop over a decomposition of n
\* subtasks, it has written n mailboxes, the i-th write being subtask i to
\* the worker that entry i names, whatever the depends_on values, and no
\* worker has produced a result in between.
C16_EverySubtaskWrittenInOrder ==
  [][\A f \in AllFiles, who \in Invocations :
       (/\ files[f][who].subs # << >>
        /\ files[f][who].pc \in { "subtask", "status" }
        /\ files'[f][who].pc = "rename") =>
         LET subs == files[f][who].subs
             mine == WorkflowWrites(orch'.log, f, who)
         IN  /\ Len(mine) = Len(subs)
             /\ \A i \in 1..Len(mine) : mine[i].step = i /\ mine[i].to = subs[i].agent
             /\ results = << >>]_vars

\* C17: every workflow subtask written to a worker mailbox carries the
\* parent task's id, the file name of the parent task and the depends_on
\* value of its entry in the decomposition.
C17_SubtaskCarriesParentAndDependency ==
  \A k \in 1..Len(orch.log) :
    LET e == orch.log[k]
    IN  /\ e.data.task._parent_task_id = files[e.f].task.id
        /\ e.data._source_file = e.f
        /\ "depends_on" \in DOMAIN e.data.task
        /\ e.data.task.depends_on = e.sub.depends_on

\* C18: an invocation of processTask in which the router and the classifier
\* yielded no worker and which has written no worker mailbox (the
\* decomposer, where attempted, yielded no worker either) returns only by
\* writing the error record; and the step that writes an error record
\* writes one record, writes no mailbox and requests no status change, and
\* the record holds every field of the original task with its value, an
\* error explanation and the tag unroutable, and nothing else.
C18_UnroutableBecomesErrorRecord ==
  [][/\ \A f \in AllFiles, who \in Invocations :
          (/\ files[f][who].pc # "done" /\ files'[f][who].pc = "done"
           /\ files[f][who].router = "none" /\ files[f][who].agent = "none"
           /\ files[f][who].stamp = 0) =>
            /\ Len(orch'.errors) = Len(orch.errors) + 1
            /\ orch'.errors[Len(orch'.errors)].f = f
            /\ orch'.errors[Len(orch'.errors)].who = who
     /\ orch'.errors # orch.errors =>
          LET e    == orch'.errors[Len(orch'.errors)]
              inv  == files[e.f][e.who]
              task == files[e.f].task
          IN  /\ SubSeq(orch'.errors, 1, Len(orch.errors)) = orch.errors
              /\ Len(orch'.errors) = Len(orch.errors) + 1
              /\ inv.router = "none" /\ inv.agent = "none" /\ inv.subs = << >>
              /\ inv.stamp = 0
              /\ WorkflowWrites(orch.log, e.f, e.who) = << >>
              /\ mailbox' = mailbox
              /\ DOMAIN e.record = DOMAIN task \cup { "_error", "_status" }
              /\ \A k \in DOMAIN task : e.record[k] = task[k]
              /\ e.record._status = "unroutable"
              /\ e.record._error = "Could not determine target agent"]_vars

\* C19: after the error record of the unroutable task file has been written
\* the orchestrator does nothing more for that file: no further classifier
\* call and no further error record.
C19_NothingAfterErrorRecord ==
  [][(Len(files) = 1 /\ orch.errors # << >>) =>
       /\ orch'.classified = orch.classified
       /\ orch'.errors = orch.errors]_vars

\* A write request for a table outside the allow-list: the task names the
\* table and carries the record, and its type is none of those that
\* processTask handles by type.
WriteOutsideAllowList(task) ==
  /\ Has(task, "table") /\ Has(task, "record")
  /\ task.table \notin WRITABLE_TABLES
  /\ ~(Has(task, "type") /\ task.type \in { "task-write", "log-activity" })

\* C20: a write request whose table is outside the allow-list returns an
\* error that names the denial and the table, leaves a denial line for that
\* table in the log, and leaves every table of the store as it was (so the
\* record is in no allowed table either).
C20_WriteOutsideAllowListDenied ==
  (db.pc = "done" /\ WriteOutsideAllowList(db.task)) =>
    /\ Has(db.result, "error")
    /\ db.result.error = "DENIED"
    /\ db.result.table = db.task.table
    /\ \E i \in 1..Len(db.log) : db.log[i] = [line |-> "WRITE DENIED", table |-> db.task.table]
    /\ \A t \in StoreTables : db.tables[t] = { }

\* The status the snapshot has to show for a poll that came to outcome.
StatusFor(outcome) ==
  IF outcome = "body" THEN "ok" ELSE IF outcome = "http-error" THEN "unhealthy" ELSE "unreachable"

\* C21: the snapshot written by a health check has exactly the seven polled
\* workers and the oracle as its entries, each under its own name; every
\* status is one of ok, unhealthy, unreachable, stale, offline; and each
\* entry shows what this cycle's poll of that worker (for the oracle, this
\* cycle's read of its health file) came to, whatever the other polls came
\* to.
C21_SnapshotHasEveryWorkerOnce ==
  hc.cycle > 0 =>
    /\ DOMAIN hc.snapshot = { HEALTH_TARGETS[i] : i \in 1..Len(HEALTH_TARGETS) } \cup { "oracle" }
    /\ Cardinality(DOMAIN hc.snapshot) = 8
    /\ \A a \in DOMAIN hc.snapshot :
         /\ hc.snapshot[a].agent = a
         /\ hc.snapshot[a].status \in { "ok", "unhealthy", "unreachable", "stale", "offline" }
    /\ \A i \in 1..Len(HEALTH_TARGETS) :
         hc.snapshot[HEALTH_TARGETS[i]].status = StatusFor(hc.polled.outcomes[i])
    /\ hc.snapshot["oracle"].status =
         IF hc.polled.file.kind = "missing" THEN "offline"
         ELSE IF hc.polled.file.old /\ hc.polled.file.uptime_seconds = 0 THEN "stale"
         ELSE "ok"

\* C21 witness: the second health check found one worker unreachable, one
\* unhealthy and the oracle's file stale, and the snapshot shows them beside
\* the workers that answered.
C21_FailedPollsBesideGoodOnes ==
  /\ hc.cycle = 2
  /\ hc.snapshot["magnus"].status = "unreachable"
  /\ hc.snapshot["sentry"].status = "unhealthy"
  /\ hc.snapshot["clark"].status = "ok"
  /\ hc.snapshot["pete"].status = "ok"
  /\ hc.snapshot["oracle"].status = "stale"

\* C22: between two times at which the status of a record becomes inbox
\* (its insertion, a reset by an external actor) Sentry drops at most one
\* file for the record into the inbox, whichever of the three paths pick
\* it up.
C22_DroppedOncePerInbox ==
  \A t \in PickupIds : Cardinality(pk.drops[t]) <= 1

\* C23: whenever a record has status inbox, be it new or reset from another
\* status, a file dropped for it since then is in the end taken up by the
\* orchestrator as a task of its own.
C23_InboxRecordIsDroppedAndHandled ==
  \A t \in { "t1" } :
    (store[t].status = "inbox") ~>
      (\E f \in pk.drops[t] : files[f].watch.pc \notin { "none", "start" })

\* A record was reset to inbox by an external actor, and a file dropped after
\* the reset has been taken up.
C23_ResetRecordHandledAgain ==
  /\ pk.resets > 0
  /\ \E f \in pk.drops["t1"] : files[f].watch.pc \notin { "none", "start" }

\* C24: the status of a record becomes in_progress only when a file of the
\* task has been written to a worker's mailbox before.
C24_InProgressOnlyAfterMailboxWrite ==
  [][\A t \in DOMAIN store :
       (store[t].status # "in_progress" /\ store'[t].status = "in_progress") =>
         \E f \in 1..Len(files) : files[f].task.id = t /\ files[f].writes > 0]_vars

\* The worker that assigned_to names, in any letter case; "none" when it
\* names no worker.
WorkerNamed(assignedTo) ==
  LET name == toLowerCase(OrEmpty(assignedTo))
  IN  CASE name = <<"m","a","g","n","u","s">> -> "magnus"
        [] name = <<"p","e","t","e">> -> "pete"
        [] name = <<"c","a","e","s","a","r">> -> "caesar"
        [] name = <<"m","a","g","g","i","e">> -> "maggie"
        [] name = <<"c","l","a","r","k">> -> "clark"
        [] name = <<"s","e","n","t","r","y">> -> "sentry"
        [] name = <<"s","c","o","u","t">> -> "scout"
        [] name = <<"o","r","a","c","l","e">> -> "oracle"
        [] OTHER -> "none"

\* C25: a task whose assigned_to names a known worker, in any letter case,
\* is routed to that worker, whatever its type and description.
C25_AssignedWorkerIsTarget ==
  (routed # "unset" /\ WorkerNamed(rtask.assigned_to) # "none") =>
    routed = WorkerNamed(rtask.assigned_to)

\* The same for the tasks that Sentry builds from a record: upper-case
\* assigned_to, and the type that AGENT_TYPE_MAP gives for it.
AssignedWorkerIsTargetViaSentry ==
  (/\ routed # "unset"
   /\ WorkerNamed(rtask.assigned_to) # "none"
   /\ rtask.assigned_to = toUpperCase(rtask.assigned_to)
   /\ rtask.type = Lookup(AGENT_TYPE_MAP, rtask.assigned_to)) =>
    routed = WorkerNamed(rtask.assigned_to)

\* C26: for a task that is not marked as a workflow, a step that calls the
\* decomposer is taken by an invocation for which routeTask gave no worker,
\* the classifier was asked and gave none, and the description is longer
\* than 200 characters; for any other such task the decomposer is never
\* called.
C26_DecomposerOnlyAsLastFallback ==
  [][\A f \in 1..Len(files) :
       ~IsWorkflow(files[f].task) =>
         /\ \A who \in { "watch", "poll" } :
              (/\ orch'.decomposed > orch.decomposed
               /\ files[f][who].pc = "decompose"
               /\ files'[f][who] # files[f][who]) =>
                /\ files[f][who].router = "none"
                /\ files[f][who].agent = "none"
                /\ files[f][who].via = "fallback"
                /\ orch.classified > 0
                /\ files[f].task.description # NoField
                /\ Len(files[f].task.description) > 200
         /\ (files[f].task.description = NoField \/ Len(files[f].task.description) <= 200) =>
              orch'.decomposed = 0]_vars

\* The decomposer has been called for a long task that is no workflow.
C26_LongTaskDecomposed ==
  \E f \in 1..Len(files) :
    /\ ~IsWorkflow(files[f].task)
    /\ orch.decomposed > 0
    /\ files[f].task.description = LongText

\* For the task of exactly 200 characters the error record is due and the
\* decomposer has not been called.
EdgeTaskNotDecomposed ==
  \E f \in 1..Len(files) :
    /\ files[f].task.description = EdgeText
    /\ files[f].watch.pc = "error"
    /\ orch.decomposed = 0

C28_Disturbed ==
  \/ ghost.ndisp > 1
  \/ \E r \in 1..Len(results) :
       results[r].loc = "processed" /\ results[r].taskId # NoId /\ results[r].applied = 0

\* C28: a record picked up from the store and routed to a container worker
\* other than Clark has, in a run without failure and without a competing
\* dispatch, in the end status done and exactly one update entry, made from
\* that worker's result.
C28_UndisturbedTaskIsDoneWithOneEntry ==
  \A t \in { "t1" } :
    (store[t].row = RowEmail) =>
      <>(\/ C28_Disturbed
         \/ /\ store[t].status = "done"
            /\ Len(store[t].updates) = 1
            /\ results[store[t].updates[1]].agent = "maggie")

\* C29: a record that is routed to the oracle runner has in the end status
\* done.
C29_OracleTaskEventuallyDone ==
  \A t \in { "t1" } :
    (store[t].row = RowOracle) => <>(store[t].status = "done")

\* The Reconciler has archived the oracle runner's result without finding
\* the task it belongs to, although the inbox file is in processed.
OracleResultUnresolved ==
  \E r \in 1..Len(results) :
    /\ results[r].agent = "oracle"
    /\ results[r].loc = "processed"
    /\ results[r].taskId = NoId
    /\ files[results[r].disp].loc = "processed"

\* The status of a record routed to the oracle runner is never done.
OracleTaskNeverDone ==
  store["t1"].row = RowOracle => store["t1"].status # "done"

\* C30: when the Reconciler takes up the result of a workflow subtask while
\* the inbox file of the workflow is in processed, it resolves the result to
\* the parent task (and goes on to the update of the parent's record).
C30_SubtaskResultReachesParent ==
  [][\A r \in 1..Len(results) :
       (/\ results[r].pc \in { "event", "none" }
        /\ results'[r].pc # results[r].pc
        /\ results[r].task_source > 100
        /\ files[results[r].task_source \div 100].loc = "processed") =>
         /\ results'[r].taskId = files[results[r].task_source \div 100].task.id
         /\ results'[r].pc = "fetch"]_vars

\* No result of a workflow subtask is ever resolved to a task, and the
\* parent's record gets no update entry made from one.
SubtaskResultNeverResolved ==
  /\ \A r \in 1..Len(results) : results[r].task_source > 100 => results[r].taskId = NoId
  /\ \A t \in DOMAIN store : \A k \in 1..Len(store[t].updates) :
       results[store[t].updates[k]].task_source <= 100

\* C31: a status request that lies unread in Clark's mailbox is in the end
\* taken up by Clark (whose next step applies it to the store), whatever is
\* written to the mailbox before Clark reads it.
C31_StatusRequestEventuallyTaken ==
  \A t \in { "t1", "t2" } :
    (mbEvent["clark"] /\ mailbox["clark"] = UpdateTask(t)) ~> (t \in clarkWork)

\* C32: an inbox file that is in processed has been written to a worker's
\* mailbox, as the task itself or as at least one of its subtasks.
C32_ProcessedFileWasDispatched ==
  \A f \in 1..Len(files) :
    files[f].loc = "processed" =>
      \/ files[f].writes > 0
      \/ \E k \in 1..Len(orch.log) : orch.log[k].f = f

\* C33: when the Reconciler takes up a result whose task_source names an
\* inbox file, that file is in processed.
C33_MovedBeforeReconciled ==
  [][\A r \in 1..Len(results) :
       (/\ results[r].pc \in { "event", "none" }
        /\ results'[r].pc \notin { "event", "none" }
        /\ results[r].task_source \in 1..Len(files)) =>
         files[results[r].task_source].loc = "processed"]_vars

\* C34: a record with status done has a non-empty updates list, and a step
\* that changes a record into one with status done is the update of the
\* Reconciler for a result matched to that task: it writes the list it had
\* fetched with the new entry appended.
C34_DoneHasUpdateEntry ==
  [][\A t \in DOMAIN store :
       store'[t].status = "done" =>
         /\ Len(store'[t].updates) > 0
         /\ store'[t] # store[t] =>
              \E r \in 1..Len(results) :
                /\ results[r].pc = "update"
                /\ results[r].taskId = t
                /\ store'[t].updates = Append(results[r].fetched, r)]_vars

\* A record has been set to done by the Reconciler.
C34_SomeRecordDone ==
  \E t \in DOMAIN store : store[t].status = "done" /\ Len(store[t].updates) = 1

\* C35: the task that the Reconciler resolves for a result is the result's
\* own task_id whenever it has one, whatever id the processed copy of the
\* file named in task_source carries; the id of that copy only when the
\* result has no task_id; and none when there is neither.
C35_OwnTaskIdFirst ==
  \A r \in 1..Len(results) :
    results[r].pc \notin { "event", "none" } =>
      LET src  == results[r].task_source
          copy == src \in 1..Len(files) /\ files[src].loc = "processed"
      IN  /\ results[r].task_id # NoId => results[r].taskId = results[r].task_id
          /\ (results[r].task_id = NoId /\ copy) => results[r].taskId = files[src].task.id
          /\ (results[r].task_id = NoId /\ ~copy) => results[r].taskId = NoId

\* A result with task_id t1 whose processed copy carries t2 was resolved to
\* t1 and the store update went to t1.
C35_OwnIdWinsOverCopy ==
  /\ results[1].task_id = "t1"
  /\ results[1].task_source = 1
  /\ files[1].loc = "processed" /\ files[1].task.id = "t2"
  /\ results[1].taskId = "t1"
  /\ store["t1"].status = "done" /\ store["t2"].status = "in_progress"

\* C36: a result that names an output file which could not be read or
\* uploaded is reconciled all the same: its entry is appended to the task's
\* updates with a text deliverable when the result is non-empty text and
\* with no deliverable otherwise, never with a file; the task is marked
\* done by that update; and the result file is moved to processed.
C36_FailedUploadStillReconciled ==
  [][\A r \in 1..Len(results) :
       (/\ results[r].pc = "update"
        /\ results'[r].pc = "done"
        /\ results[r].output_file # "none"
        /\ results'[r].upload = "failed") =>
          /\ results'[r].deliverable = IF results[r].text THEN "text" ELSE "none"
          /\ results'[r].loc = "processed"
          /\ results'[r].applied > results[r].applied =>
                /\ store'[results[r].taskId].status = "done"
                /\ store'[results[r].taskId].updates = Append(results[r].fetched, r)]_vars

\* A text result whose output file is missing was applied: the task is
\* done with the entry, the deliverable is the text, the file is archived.
C36_MissingFileTextDelivered ==
  \E r \in 1..Len(results) :
    /\ results[r].output_file = "missing"
    /\ results[r].text
    /\ results[r].upload = "failed"
    /\ results[r].deliverable = "text"
    /\ results[r].applied = 1
    /\ results[r].loc = "processed"
    /\ store[results[r].taskId].status = "done"
    /\ store[results[r].taskId].updates = << r >>

\* C37: when the write of the mailbox in dispatchToAgent throws, that run
\* of processTask writes nothing to any mailbox, so it requests no status
\* change from Clark, and leaves the file in the inbox; and each later poll
\* takes up every file that such a failure left in the inbox.
C37_FailedDispatchLeavesFile ==
  [][/\ \A f \in 1..Len(files), who \in { "watch", "poll" } :
          (/\ files[f][who].pc = "dispatch"
           /\ Len(orch'.caught) > Len(orch.caught)
           /\ orch'.caught[Len(orch'.caught)].f = f
           /\ orch'.caught[Len(orch'.caught)].who = who) =>
             /\ mailbox' = mailbox
             /\ mbEvent' = mbEvent
             /\ files'[f].loc = "inbox"
             /\ files'[f].writes = files[f].writes
     /\ (orch'.polls > orch.polls) =>
          \A k \in 1..Len(orch.caught) :
            (orch.caught[k].at = "dispatch" /\ files[orch.caught[k].f].loc = "inbox") =>
              /\ \E q \in 1..Len(pollQueue') : pollQueue'[q] = orch.caught[k].f
              /\ files'[orch.caught[k].f].poll.pc = "start"]_vars

\* The watcher's dispatch of file 1 failed before the first poll, and that
\* poll dispatched the file and moved it.
C37_RetriedByNextPoll ==
  \E k \in 1..Len(orch.caught) :
    /\ orch.caught[k] = [f |-> 1, who |-> "watch", at |-> "dispatch", polls |-> 0]
    /\ orch.polls = 1
    /\ files[1].poll.stamp > 0
    /\ files[1].writes = 1
    /\ files[1].loc = "processed"

\* C38: a failure while one inbox file is handled ends that run of
\* processTask only: when it was the poll's run, the poll goes on with the
\* rest of its list, each of those files still to be handled in this
\* cycle; when it was the watcher's run, the poll's list is untouched.
C38_FailureEndsOneFileOnly ==
  [][Len(orch'.caught) > Len(orch.caught) =>
       LET e == orch'.caught[Len(orch'.caught)]
       IN  /\ files'[e.f][e.who].pc = "done"
           /\ (e.who = "poll") =>
                (/\ pollQueue # << >> /\ Head(pollQueue) = e.f
                 /\ pollQueue' = Tail(pollQueue)
                 /\ \A q \in 1..Len(pollQueue') : files'[pollQueue'[q]].poll.pc = "start")
           /\ (e.who = "watch") => (pollQueue' = pollQueue)
           /\ \A g \in 1..Len(files) : (g # e.f) => (files'[g] = files[g])]_vars

\* The poll's read of file 1 failed and the same poll cycle went on to
\* file 2 and dispatched it.
C38_PollWentOnToNextFile ==
  \E k \in 1..Len(orch.caught) :
    /\ orch.caught[k].f = 1
    /\ orch.caught[k].who = "poll"
    /\ orch.caught[k].at = "start"
    /\ orch.caught[k].polls = orch.polls
    /\ files[2].poll.stamp > 0
    /\ files[2].loc = "processed"

\* C39: a container worker executes each task written to its mailbox at
\* most once: no two results of one worker come from the same write of its
\* mailbox, restarts of the worker included.
C39_OneResultPerMailboxWrite ==
  \A r1, r2 \in 1..Len(results) :
    (/\ results[r1].agent \in ContainerWorkers
     /\ results[r1].agent = results[r2].agent
     /\ results[r1].disp = results[r2].disp) => r1 = r2

\* C40: a health check that finds the oracle's health file older than 60
\* seconds writes a snapshot in which the oracle's status is stale, not the
\* status the file holds.
C40_OldHealthFileIsStale ==
  (/\ hc.cycle > 0
   /\ hc.polled.file.kind = "file"
   /\ hc.polled.file.old) => hc.snapshot["oracle"].status = "stale"

====
